---- MODULE Spec2Model ----
(***************************************************************************)
(* A model of the REVS-index scraper: the Bring a Trailer listing loader,  *)
(* the scraping pipeline, the scrape command's session handling and the    *)
(* rule-driven field extractors.                                           *)
(***************************************************************************)
EXTENDS Integers, Sequences, FiniteSets, TLC

----------------------------------------------------------------------------
(* Bounds of the model *)

\* largest click budget (ScrapeConfig.max_clicks) explored
MaxClicksBound == 2
\* largest number of listing cards a card-count observation returns
MaxCards == 1
\* iterations with an unrecognised reveal result explored per loader run
MaxIdle == 1
\* longest list of detail URLs handed to _scrape_listings
MaxUrls == 3
\* longest combined list handed to _deduplicate
MaxCombined == 3
\* most cars the scrape command is given, and most listings one run returns
MaxCars == 3
MaxRunListings == 2
\* longest rule list of a field extractor
MaxRules == 2
\* longest captured value handed to _apply_transform
MaxValueLen == 5
\* most words of a title handed to _extract_variant
MaxTitleWords == 4
\* most words of a title handed to _extract_year
MaxYearWords == 3
\* most cards on the page get_listing_urls reads
MaxPageCards == 2
\* longest enumerated text of a results block
MaxBlockLen == 3
\* most get_delay calls of one session
MaxActions == 16
\* most bid notifications a detail page shows
MaxLinks == 2
\* most slugs of a configuration, and most listings accepted from one slug
MaxSlugs == 2
MaxSlugListings == 2
\* most items of the JSON array in a prior output file
MaxItems == 3

(* Program constants *)

\* consecutive failures that stop the loader
FailureLimit == 2
\* growth polls after one successful reveal: range(15)
PollBudget == 15

----------------------------------------------------------------------------
VARIABLES
    \* BringATrailerSite._load_all_listings
    max_clicks,             \* the click budget
    clicks,                 \* click counter
    consecutive_failures,   \* consecutive-failure counter
    listings_before,        \* card count recorded before the reveal
    wait_attempt,           \* growth polls done in this iteration
    lpc,                    \* "Loading", "AwaitingGrowth", "Exit", "Returned"
    exit_reason,            \* "none", "exhausted", "failed", "budget"
    final_count,            \* card count read after the loop
    reveals,                \* reveal actions executed so far
    idle,                   \* iterations that changed no counter
    head_clicks,            \* clicks at the start of the last iteration
    head_failures,          \* consecutive_failures at that point
    listings_after,         \* the card count seen by the last poll
    last_event,             \* what the last step of the loader met
    carried_done,           \* whether the last reveal result had the key 'done'
    \* BringATrailerSite.get_listing_urls
    page_cards,             \* the href of each card on the page, in page order
    max_listings,           \* ScrapeConfig.max_listings
    urls,                   \* what get_listing_urls returned
    \* ScrapingPipeline._scrape_listings
    num_urls,               \* len(urls)
    append_mode,            \* self.append_storage is set
    existing_lot_numbers,   \* JSONStorage.existing_lot_numbers
    min_year, max_year,     \* ScrapeConfig year bounds
    fields,                 \* ScrapeConfig.fields
    i,                      \* position of the next url, from 1
    listings,               \* the list being returned
    spc,                    \* "idle", "scraping", "returned"
    history, hpos,          \* the browser session's history and place in it
    opened,                 \* urls handed to extract_listing so far
    last_listing,           \* what extract_listing returned for the last url
    last_fault,             \* how the last extraction failed, or "none"
    last_outcome,           \* what the pipeline did with the last url
    last_evaluated,         \* the filters evaluated for it, in order
    last_backs,             \* browser.back() calls issued for it
    \* ScrapingPipeline._deduplicate
    combined,               \* the list handed in
    dpos,                   \* position of the loop in it, from 1
    seen_urls,              \* urls met so far
    unique,                 \* the list built
    dpc,                    \* "idle", "looping", "returned"
    \* cli/commands/scrape.py main
    num_cars,               \* len(cars_to_scrape)
    car,                    \* position of the car being processed, from 1
    mpc,                    \* where main is
    session,                \* the car's browser session: "none", "open", "closed"
    overrides,              \* how applying the overrides to its driver came out
    saved,                  \* number of listings saved for each car so far
    left_by,                \* how the current car's processing was left
    exit_code,              \* what main returned, NoneInt while it runs
    \* field extractors
    ex_field,               \* "vin", "mileage", "transmission"
    ex_rules,               \* the extractor's rule list
    ex_driver,              \* whether a live driver is passed
    ex_value,               \* what extract returned
    ex_consulted,           \* number of rules consulted
    epc,                    \* "idle", "ready", "done"
    \* one call of a helper that reads no state
    fn,                     \* the helper called
    arg,                    \* its arguments
    ret,                    \* what it returned or raised
    cpc,                    \* "idle", "ready", "done"
    \* JSONStorage construction
    prior_file,             \* what the file at filepath holds
    item_pos,               \* position of the loop over its items, from 1
    stpc,                   \* "idle", "opening", "loading", "constructed"
    \* ScrapingPipeline.run
    num_slugs,              \* len(config.slugs)
    slug,                   \* position of the slug being processed, from 1
    append_storage,         \* whether self.append_storage is set
    all_listings,           \* the combined list
    visited,                \* the slugs navigated to, in order
    accepted,               \* the detail urls of the listings accepted, in order
    rpc,                    \* "idle", "looping", "combining", "deduplicating",
                            \* "returned", "raised"
    \* BringATrailerSite._extract_high_bidder
    sale_price,             \* the sale_price argument, NoneInt when None
    notifications,          \* the bid notifications the page shows, in page order
    bid_clicks,             \* the local clicks
    high_bidder,            \* what was returned
    bid_exit,               \* "none", "found", "no_control", "exhausted"
    bpc,                    \* "idle", "loop", "returned", "raised"
    \* DelayStrategy, times in milliseconds
    min_delay,              \* self.min_delay
    action_count,           \* self.action_count
    last_delay,             \* what the last get_delay returned, 0 before any
    delay_branch,           \* the branch it took: "none", "long", "quick", "fatigued"
    since_pause,            \* get_delay calls since the last long pause
    last_gap                \* the calls the last long pause came after, 0 before any

loaderVars == <<max_clicks, clicks, consecutive_failures, listings_before,
                wait_attempt, lpc, exit_reason, final_count, reveals, idle,
                head_clicks, head_failures, page_cards, max_listings, urls,
                listings_after, last_event, carried_done>>

collectVars == <<page_cards, max_listings, urls>>

eventVars == <<listings_after, last_event, carried_done>>

scrapeVars == <<num_urls, append_mode, existing_lot_numbers, min_year,
                max_year, fields, i, listings, spc, history, hpos, opened,
                last_listing, last_fault, last_outcome, last_evaluated,
                last_backs>>

\* the scrape variables other than the storage adapter's set
scrapeRest == <<num_urls, append_mode, min_year, max_year, fields, i,
                listings, spc, history, hpos, opened, last_listing,
                last_fault, last_outcome, last_evaluated, last_backs>>

dedupVars == <<combined, dpos, seen_urls, unique, dpc>>

mainVars == <<num_cars, car, mpc, session, saved, left_by, exit_code,
              overrides>>

extractVars == <<ex_field, ex_rules, ex_driver, ex_value, ex_consulted, epc>>

callVars == <<fn, arg, ret, cpc>>

storageVars == <<prior_file, item_pos, stpc>>

runVars == <<num_slugs, slug, append_storage, all_listings, visited, accepted,
             rpc>>

bidderVars == <<sale_price, notifications, bid_clicks, high_bidder, bid_exit,
                bpc>>

\* the groups of the humanization engine and of the detail page
delayVars == <<min_delay, action_count, last_delay, delay_branch, since_pause,
               last_gap>>

moreVars == <<bidderVars, delayVars>>

\* the groups of the loader, the pipeline, the command and the extractors
coreVars == <<loaderVars, scrapeVars, dedupVars, mainVars, extractVars,
              callVars, storageVars, runVars>>

vars == <<coreVars, moreVars>>

notBidder == <<coreVars, delayVars>>
notDelay == <<coreVars, bidderVars>>

notLoader == <<scrapeVars, dedupVars, mainVars, extractVars, callVars,
    storageVars, runVars, moreVars>>
notScrape == <<loaderVars, dedupVars, mainVars, extractVars, callVars,
    storageVars, runVars, moreVars>>
notDedup == <<loaderVars, scrapeVars, mainVars, extractVars, callVars,
    storageVars, runVars, moreVars>>
notMain == <<loaderVars, scrapeVars, dedupVars, extractVars, callVars,
    storageVars, runVars, moreVars>>
notCall == <<loaderVars, scrapeVars, dedupVars, mainVars, extractVars,
    storageVars, runVars, moreVars>>
notStorage == <<loaderVars, scrapeRest, dedupVars, mainVars, extractVars, callVars,
    runVars, moreVars>>
\* what the slug loop of run leaves alone, and what its other steps do
notRunNorDedup == <<loaderVars, scrapeVars, mainVars, extractVars, callVars,
    storageVars, moreVars>>
notRun == <<notRunNorDedup, dedupVars>>
notExtract == <<loaderVars, scrapeVars, dedupVars, mainVars, callVars,
    storageVars, runVars, moreVars>>

----------------------------------------------------------------------------
(* Python values.  A str is a tuple of one-character strings; None is a    *)
(* value that is no str; an absent int is NoneInt.                         *)

None == <<"None">>
NoneInt == -1
NA == <<"N", "/", "A">>

\* truth value of an Optional[str]
Truthy(s) == s # None /\ s # <<>>

\* truth value of an Optional[int]
TruthyInt(n) == n # NoneInt /\ n # 0

\* x or 'N/A'
OrNA(s) == IF Truthy(s) THEN s ELSE NA

UpperCase == <<"A", "B", "C", "D", "E", "F", "G", "H", "I", "J", "K", "L", "M",
               "N", "O", "P", "Q", "R", "S", "T", "U", "V", "W", "X", "Y", "Z">>
LowerCase == <<"a", "b", "c", "d", "e", "f", "g", "h", "i", "j", "k", "l", "m",
               "n", "o", "p", "q", "r", "s", "t", "u", "v", "w", "x", "y", "z">>
Digits == <<"0", "1", "2", "3", "4", "5", "6", "7", "8", "9">>

Range(f) == {f[k] : k \in DOMAIN f}

DigitChars == Range(Digits)
UpperChars == Range(UpperCase)
LowerChars == Range(LowerCase)
\* the characters \w matches
WordChars == UpperChars \cup LowerChars \cup DigitChars \cup {"_"}

IsDigit(ch) == ch \in DigitChars
DigitValue(ch) == (CHOOSE k \in DOMAIN Digits : Digits[k] = ch) - 1

\* \w
IsWordChar(ch) == ch \in WordChars

LowerChar(ch) ==
    IF ch \in UpperChars
       THEN LowerCase[CHOOSE k \in DOMAIN UpperCase : UpperCase[k] = ch]
       ELSE ch

\* str.lower()
Lower(s) == [k \in DOMAIN s |-> LowerChar(s[k])]

\* sub in s
Contains(s, sub) ==
    \E o \in 0..(Len(s) - Len(sub)) : SubSeq(s, o + 1, o + Len(sub)) = sub

\* all sequences over chars of length at most n
Strings(chars, n) == UNION {[1..m -> chars] : m \in 0..n}

----------------------------------------------------------------------------
(* The listing loader *)

ResultKeys == {"done", "reason", "error", "success"}

\* What browser.execute_script(load_more_listings) can give: it raises, it
\* returns a value that supports no membership test (None, a number), or it
\* returns a mapping with any set of keys.
RevealResults ==
    {[kind |-> "raise", keys |-> {}], [kind |-> "novalue", keys |-> {}]}
        \cup {[kind |-> "map", keys |-> K] : K \in SUBSET ResultKeys}

CardCounts == 0..MaxCards

StalledOut_Late(cf) == cf > FailureLimit

\* if consecutive_failures >= 2: break
StalledOut(cf) == cf >= FailureLimit

\* while clicks < max_clicks
LoopHead(c) == IF c < max_clicks THEN "Loading" ELSE "Exit"

\* consecutive_failures += 1; if consecutive_failures >= 2: break; else the
\* loop condition is tested again
LoaderFailure(c) ==
    /\ consecutive_failures' = consecutive_failures + 1
    /\ IF StalledOut(consecutive_failures + 1)
          THEN lpc' = "Exit" /\ exit_reason' = "failed"
          ELSE /\ lpc' = LoopHead(c)
               /\ exit_reason' = IF c < max_clicks THEN exit_reason ELSE "budget"

\* The result is read as: 'done' first (its 'reason' is printed), then
\* 'error', then 'success'.
Interpret(result) ==
    CASE result.kind = "raise" -> "exception"
      [] result.kind = "novalue" -> "exception"
      [] "done" \in result.keys /\ "reason" \in result.keys -> "done"
      [] "done" \in result.keys -> "exception"
      [] "error" \in result.keys -> "error"
      [] "success" \in result.keys -> "success"
      [] OTHER -> "unrecognised"

\* The scroll script raises before the reveal is executed.
ScrollFails ==
    /\ lpc = "Loading"
    /\ head_clicks' = clicks
    /\ head_failures' = consecutive_failures
    /\ LoaderFailure(clicks)
    /\ last_event' = "scroll_failed"
    /\ carried_done' = FALSE
    /\ UNCHANGED <<max_clicks, clicks, listings_before, wait_attempt,
                   final_count, reveals, idle, listings_after>>
    /\ UNCHANGED collectVars
    /\ UNCHANGED notLoader

\* One pass from the loop head through the reveal action.
Reveal ==
    /\ lpc = "Loading"
    /\ \E before \in CardCounts, result \in RevealResults :
        /\ listings_before' = before
        /\ reveals' = reveals + 1
        /\ head_clicks' = clicks
        /\ head_failures' = consecutive_failures
        /\ last_event' = Interpret(result)
        /\ carried_done' = (result.kind = "map" /\ "done" \in result.keys)
        /\ LET outcome == Interpret(result) IN
           CASE outcome = "done" ->
                    /\ lpc' = "Exit"
                    /\ exit_reason' = "exhausted"
                    /\ UNCHANGED <<clicks, consecutive_failures, wait_attempt, idle>>
             [] outcome \in {"exception", "error"} ->
                    /\ LoaderFailure(clicks)
                    /\ UNCHANGED <<clicks, wait_attempt, idle>>
             [] outcome = "success" ->
                    /\ clicks' = clicks + 1
                    /\ wait_attempt' = 0
                    /\ lpc' = "AwaitingGrowth"
                    /\ UNCHANGED <<consecutive_failures, exit_reason, idle>>
             [] outcome = "unrecognised" ->
                    /\ idle < MaxIdle
                    /\ idle' = idle + 1
                    /\ lpc' = LoopHead(clicks)
                    /\ UNCHANGED <<clicks, consecutive_failures, wait_attempt,
                                   exit_reason>>
    /\ UNCHANGED <<max_clicks, final_count, listings_after>>
    /\ UNCHANGED collectVars
    /\ UNCHANGED notLoader

Grew_OrEqual(after, before) == after >= before

\* if listings_after > listings_before
Grew(after, before) == after > before

AfterGrowth_Keep(cf) == cf

\* consecutive_failures = 0
AfterGrowth(cf) == 0

\* One poll of the card count after a successful reveal.
Poll ==
    /\ lpc = "AwaitingGrowth"
    /\ \E after \in CardCounts :
        /\ listings_after' = after
        /\ IF Grew(after, listings_before)
              THEN /\ consecutive_failures' = AfterGrowth(consecutive_failures)
                   /\ lpc' = LoopHead(clicks)
                   /\ exit_reason' = IF clicks < max_clicks THEN exit_reason ELSE "budget"
                   /\ last_event' = "growth"
                   /\ UNCHANGED wait_attempt
              ELSE IF wait_attempt + 1 < PollBudget
                      THEN /\ wait_attempt' = wait_attempt + 1
                           /\ last_event' = "no_growth"
                           /\ UNCHANGED <<consecutive_failures, lpc, exit_reason>>
                      ELSE /\ wait_attempt' = wait_attempt + 1
                           /\ last_event' = "stalled"
                           /\ LoaderFailure(clicks)
    /\ UNCHANGED <<max_clicks, clicks, listings_before, final_count, reveals,
                   idle, head_clicks, head_failures, carried_done>>
    /\ UNCHANGED collectVars
    /\ UNCHANGED notLoader

base_url == <<"h", "t", "t", "p", "s", ":", "/", "/", "b", "a", "t">>
Href_Absolute == <<"h", "t", "t", "p", ":", "/", "/", "x", "/", "1">>
Href_Relative == <<"/", "l", "/", "2">>

\* card.get('href'): an absolute or a relative address, '' or None
Hrefs == {Href_Absolute, Href_Relative, <<>>, None}

\* the cards a page can show, each by its href
CardLists == Strings(Hrefs, MaxPageCards)

\* final_count = len(browser.find_elements(cards)) after the loop
LoaderReturn ==
    /\ lpc = "Exit"
    /\ lpc' = "Returned"
    /\ \E n \in CardCounts : final_count' = n
    /\ UNCHANGED <<max_clicks, clicks, consecutive_failures, listings_before,
                   wait_attempt, exit_reason, reveals, idle, head_clicks,
                   head_failures>>
    /\ UNCHANGED collectVars
    /\ UNCHANGED eventVars
    /\ UNCHANGED notLoader

\* url.startswith('http')
StartsWithHttp(url) ==
    Len(url) >= 4 /\ SubSeq(url, 1, 4) = <<"h", "t", "t", "p">>

\* the url appended for a card, <<>> for a card that is passed over
CardUrl(href) ==
    IF ~Truthy(href) THEN <<>>
    ELSE IF StartsWithHttp(href) THEN href
    ELSE base_url \o href

\* the loop over cards of get_listing_urls
RECURSIVE CollectCards(_)
CollectCards(cards) ==
    IF cards = <<>> THEN <<>>
    ELSE (IF CardUrl(Head(cards)) # <<>> THEN <<CardUrl(Head(cards))>> ELSE <<>>)
            \o CollectCards(Tail(cards))

Capped_Short(found, n) ==
    SubSeq(found, 1, IF n < Len(found) - 1 THEN n ELSE Len(found) - 1)

\* listings[:config.max_listings], for max_listings >= 0
Capped(found, n) == SubSeq(found, 1, IF n < Len(found) THEN n ELSE Len(found))

\* get_listing_urls, after _load_all_listings has returned: the page is
\* read and its cards are turned into urls
CollectUrls ==
    /\ lpc = "Returned"
    /\ \E cards \in CardLists :
        /\ page_cards' = cards
        /\ urls' = Capped(CollectCards(cards), max_listings)
    /\ lpc' = "Collected"
    /\ UNCHANGED <<max_clicks, clicks, consecutive_failures, listings_before,
                   wait_attempt, exit_reason, final_count, reveals, idle,
                   head_clicks, head_failures, max_listings>>
    /\ UNCHANGED eventVars
    /\ UNCHANGED notLoader

InitLoader ==
    /\ max_clicks \in 0..MaxClicksBound
    /\ clicks = 0
    /\ consecutive_failures = 0
    /\ listings_before = 0
    /\ wait_attempt = 0
    /\ lpc = LoopHead(0)
    /\ exit_reason = IF 0 < max_clicks THEN "none" ELSE "budget"
    /\ final_count = 0
    /\ reveals = 0
    /\ idle = 0
    /\ head_clicks = 0
    /\ head_failures = 0
    /\ page_cards = <<>>
    /\ max_listings \in 0..MaxPageCards
    /\ urls = <<>>
    /\ listings_after = 0
    /\ last_event = "none"
    /\ carried_done = FALSE

NextLoader ==
    \/ ScrollFails
    \/ Reveal
    \/ Poll
    \/ LoaderReturn

\* get_listing_urls with a budget of one click
InitCollect == InitLoader /\ max_clicks = 1

NextCollect ==
    \/ NextLoader
    \/ CollectUrls

IdleLoader ==
    /\ max_clicks = 0
    /\ clicks = 0
    /\ consecutive_failures = 0
    /\ listings_before = 0
    /\ wait_attempt = 0
    /\ lpc = "Idle"
    /\ exit_reason = "none"
    /\ final_count = 0
    /\ reveals = 0
    /\ idle = 0
    /\ head_clicks = 0
    /\ head_failures = 0
    /\ page_cards = <<>>
    /\ max_listings = 0
    /\ urls = <<>>
    /\ listings_after = 0
    /\ last_event = "none"
    /\ carried_done = FALSE

----------------------------------------------------------------------------
(* Field extractors.  A rule is modelled by its type and by the candidate  *)
(* its _extract_from_* helper yields on the input at hand (None or NoneInt *)
(* when its patterns do not match).                                        *)

\* [A-HJ-NPR-Z0-9]
VinChars == (Range(UpperCase) \ {"I", "O", "Q"}) \cup Range(Digits)

\* re.match('^[A-HJ-NPR-Z0-9]{17}$', vin): $ also matches before a final newline
_validate_vin(vin) ==
    /\ Len(vin) \in {17, 18}
    /\ \A k \in 1..17 : vin[k] \in VinChars
    /\ Len(vin) = 18 => vin[18] = "\n"

\* selector rules need no driver, comment_search rules are skipped without one
VinRuleValue(rule, driver) ==
    IF rule.type = "selector" THEN rule.candidate
    ELSE IF rule.type = "comment_search" /\ driver THEN rule.candidate
    ELSE None

\* if vin and self._validate_vin(vin): return vin
VinAccepted(rule, driver) ==
    LET vin == VinRuleValue(rule, driver) IN Truthy(vin) /\ _validate_vin(vin)

\* the first rule of the loop whose result is returned
FirstHit(hits) == CHOOSE k \in hits : \A m \in hits : k <= m

\* VINExtractor.extract: the value returned and the number of rules consulted
VINExtractor_extract(rules, driver) ==
    LET hits == {k \in DOMAIN rules : VinAccepted(rules[k], driver)} IN
    IF hits = {}
       THEN [value |-> None, consulted |-> Len(rules)]
       ELSE [value |-> VinRuleValue(rules[FirstHit(hits)], driver),
             consulted |-> FirstHit(hits)]

MileageRuleValue(rule, driver) ==
    IF rule.type \in {"listing_detail", "title"} THEN rule.candidate
    ELSE IF rule.type = "comment_search" /\ driver THEN rule.candidate
    ELSE NoneInt

\* MileageExtractor.extract: if mileage is not None: return mileage
MileageExtractor_extract(rules, driver) ==
    LET hits == {k \in DOMAIN rules : MileageRuleValue(rules[k], driver) # NoneInt} IN
    IF hits = {}
       THEN [value |-> NoneInt, consulted |-> Len(rules)]
       ELSE [value |-> MileageRuleValue(rules[FirstHit(hits)], driver),
             consulted |-> FirstHit(hits)]

TransmissionRuleValue(rule) ==
    IF rule.type = "listing_detail" THEN rule.candidate ELSE None

\* TransmissionExtractor.extract: if transmission: return transmission
TransmissionExtractor_extract(rules) ==
    LET hits == {k \in DOMAIN rules : Truthy(TransmissionRuleValue(rules[k]))} IN
    IF hits = {}
       THEN [value |-> None, consulted |-> Len(rules)]
       ELSE [value |-> TransmissionRuleValue(rules[FirstHit(hits)]),
             consulted |-> FirstHit(hits)]

VIN_VALID == <<"W", "B", "S", "B", "L", "9", "3", "4", "9", "8", "C", "Y", "1",
               "3", "7", "5", "4">>
VIN_OTHER == <<"1", "H", "G", "C", "M", "8", "2", "6", "3", "3", "A", "0", "0",
               "4", "3", "5", "2">>
\* a 10-character chassis number
VIN_SHORT == <<"W", "B", "S", "B", "L", "9", "3", "4", "9", "8">>
\* 17 characters, one of them the letter O
VIN_WITH_O == [VIN_VALID EXCEPT ![2] = "O"]
\* 17 characters, in lower case as re.I lets a rule capture them
VIN_LOWER == Lower(VIN_VALID)
\* 18 characters of the alphabet
VIN_LONG == VIN_VALID \o <<"7">>
\* a valid VIN captured together with the line break after it
VIN_NEWLINE == VIN_VALID \o <<"\n">>

----------------------------------------------------------------------------
(* Detail pages and the Listing assembled from them *)

USA == <<"U", "S", "A">>
Canada == <<"C", "a", "n", "a", "d", "a">>
Lot999 == <<"9", "9", "9">>
Lot1234 == <<"1", "2", "3", "4">>
Lot555 == <<"5", "5", "5">>
modified == <<"m", "o", "d", "i", "f", "i", "e", "d">>

Title_2003 == <<"2", "0", "0", "3", " ", "B", "M", "W", " ", "M", "3">>
Title_1999 == <<"1", "9", "9", "9", " ", "B", "M", "W", " ", "M", "3">>
Title_NoYear == <<"B", "M", "W", " ", "M", "3">>
Title_Modified == Title_2003 \o <<" ", "M", "o", "d", "i", "f", "i", "e", "d">>

YearAt_Unbounded(title, p) ==
    /\ p + 3 <= Len(title)
    /\ <<title[p], title[p + 1]>> \in {<<"1", "9">>, <<"2", "0">>}
    /\ IsDigit(title[p + 2]) /\ IsDigit(title[p + 3])

\* \b(19|20)\d{2}\b matches at place p of title
YearAt(title, p) ==
    /\ p + 3 <= Len(title)
    /\ <<title[p], title[p + 1]>> \in {<<"1", "9">>, <<"2", "0">>}
    /\ IsDigit(title[p + 2]) /\ IsDigit(title[p + 3])
    /\ p = 1 \/ ~IsWordChar(title[p - 1])
    /\ p + 3 = Len(title) \/ ~IsWordChar(title[p + 4])

\* int(year_match.group()) if year_match else None
_extract_year(title) ==
    LET places == {p \in DOMAIN title : YearAt(title, p)} IN
    IF places = {} THEN NoneInt
    ELSE LET p == CHOOSE q \in places : \A r \in places : q <= r IN
         1000 * DigitValue(title[p]) + 100 * DigitValue(title[p + 1])
            + 10 * DigitValue(title[p + 2]) + DigitValue(title[p + 3])

\* the two VIN rules of the site configuration, as they apply to a page
VinRules(a, b) ==
    <<[type |-> "selector", candidate |-> a],
      [type |-> "comment_search", candidate |-> b]>>

\* What a detail page shows: lot number, country tag, title, VIN candidates.
Pages ==
    {[lot_number |-> lot, country |-> USA, title |-> Title_2003,
      vin_rules |-> VinRules(VIN_VALID, None)] : lot \in {Lot999, Lot1234}}
    \cup
    {[lot_number |-> Lot1234, country |-> Canada, title |-> Title_Modified,
      vin_rules |-> VinRules(None, None)],
     [lot_number |-> Lot555, country |-> Canada, title |-> Title_Modified,
      vin_rules |-> VinRules(VIN_VALID, None)],
     [lot_number |-> Lot555, country |-> None, title |-> Title_Modified,
      vin_rules |-> VinRules(None, None)],
     [lot_number |-> None, country |-> USA, title |-> Title_1999,
      vin_rules |-> VinRules(VIN_SHORT, VIN_OTHER)],
     [lot_number |-> Lot555, country |-> USA, title |-> Title_1999,
      vin_rules |-> VinRules(VIN_SHORT, None)],
     [lot_number |-> Lot555, country |-> None, title |-> Title_NoYear,
      vin_rules |-> VinRules(None, VIN_OTHER)],
     [lot_number |-> Lot555, country |-> USA, title |-> Title_NoYear,
      vin_rules |-> VinRules(None, None)],
     [lot_number |-> Lot555, country |-> USA, title |-> Title_2003,
      vin_rules |-> VinRules(None, None)]}

\* the attributes of Listing the pipeline reads
NoListing ==
    [url |-> <<>>, title |-> <<>>, lot_number |-> None, vin |-> None,
     year |-> NoneInt, country |-> None]

\* the fields BringATrailerSite.extract_listing reads off each page
Extracted ==
    [page \in Pages |->
        [title |-> page.title,
         lot_number |-> page.lot_number,
         vin |-> VINExtractor_extract(page.vin_rules, TRUE).value,
         year |-> _extract_year(page.title),
         country |-> page.country]]

\* BringATrailerSite.extract_listing, when nothing raises
extract_listing(url, page) ==
    [url |-> url,
     title |-> Extracted[page].title,
     lot_number |-> Extracted[page].lot_number,
     vin |-> Extracted[page].vin,
     year |-> Extracted[page].year,
     country |-> Extracted[page].country]

UrlOf(k) == <<"u", Digits[k + 1]>>

\* Listing.to_dict, on the attributes modelled: it emits no 'country'
to_dict(l) ==
    [url |-> l.url,
     lot_number |-> OrNA(l.lot_number),
     title |-> OrNA(l.title),
     vin |-> OrNA(l.vin),
     year |-> l.year]

\* Listing.from_dict of the record holding the keys kept
from_dict(d, kept) ==
    [url |-> IF "url" \in kept THEN d.url ELSE <<>>,
     title |-> IF "title" \in kept THEN d.title ELSE <<>>,
     lot_number |-> IF "lot_number" \in kept THEN d.lot_number ELSE None,
     vin |-> IF "vin" \in kept THEN d.vin ELSE None,
     year |-> IF "year" \in kept THEN d.year ELSE NoneInt,
     country |-> None]

\* ScrapingPipeline._filter_fields
_filter_fields(l, fs) ==
    LET d == to_dict(l) IN from_dict(d, Range(fs) \cap DOMAIN d)

----------------------------------------------------------------------------
(* ScrapingPipeline._scrape_listings *)

exists_Never(lot_number) == FALSE

\* JSONStorage.exists
exists(lot_number) == lot_number \in existing_lot_numbers

\* the append-mode duplicate check
DuplicateFound(l) ==
    append_mode /\ Truthy(l.lot_number) /\ l.lot_number # NA /\ exists(l.lot_number)

\* if listing.country and listing.country != 'USA'
NonUSA(l) == Truthy(l.country) /\ l.country # USA

Titles == {p.title : p \in Pages} \cup {<<>>, NA}

\* 'modified' in title.lower(), for each title
ModifiedIn == [t \in Titles |-> Contains(Lower(t), modified)]

\* if 'modified' in listing.title.lower()
TitleModified(l) == ModifiedIn[l.title]

should_skip_year_MinOnly(year) ==
    IF TruthyInt(min_year) /\ year = NoneInt THEN "raise"
    ELSE IF TruthyInt(min_year) /\ year < min_year THEN "skip"
    ELSE "keep"

\* ScrapeConfig.should_skip_year: comparing an absent year raises TypeError
should_skip_year(year) ==
    IF TruthyInt(min_year) /\ year = NoneInt THEN "raise"
    ELSE IF TruthyInt(min_year) /\ year < min_year THEN "skip"
    ELSE IF TruthyInt(max_year) /\ year = NoneInt THEN "raise"
    ELSE IF TruthyInt(max_year) /\ year > max_year THEN "skip"
    ELSE "keep"

\* if not listing.vin or listing.vin == 'N/A'
NoVIN(l) == ~Truthy(l.vin) \/ l.vin = NA

FilterChain_CountryFirst(l) ==
    IF NonUSA(l)
       THEN [outcome |-> "country", evaluated |-> <<"country">>]
    ELSE IF DuplicateFound(l)
       THEN [outcome |-> "duplicate", evaluated |-> <<"country", "duplicate">>]
    ELSE IF TitleModified(l)
       THEN [outcome |-> "title", evaluated |-> <<"country", "duplicate", "title">>]
    ELSE IF should_skip_year(l.year) = "raise"
       THEN [outcome |-> "error",
             evaluated |-> <<"country", "duplicate", "title", "year">>]
    ELSE IF should_skip_year(l.year) = "skip"
       THEN [outcome |-> "year",
             evaluated |-> <<"country", "duplicate", "title", "year">>]
    ELSE IF NoVIN(l)
       THEN [outcome |-> "vin",
             evaluated |-> <<"country", "duplicate", "title", "year", "vin">>]
    ELSE [outcome |-> "accepted",
          evaluated |-> <<"country", "duplicate", "title", "year", "vin">>]

\* The acceptance filters in the order of the code, with the filters that
\* were evaluated for the listing.
FilterChain(l) ==
    IF DuplicateFound(l)
       THEN [outcome |-> "duplicate", evaluated |-> <<"duplicate">>]
    ELSE IF NonUSA(l)
       THEN [outcome |-> "country", evaluated |-> <<"duplicate", "country">>]
    ELSE IF TitleModified(l)
       THEN [outcome |-> "title", evaluated |-> <<"duplicate", "country", "title">>]
    ELSE IF should_skip_year(l.year) = "raise"
       THEN [outcome |-> "error",
             evaluated |-> <<"duplicate", "country", "title", "year">>]
    ELSE IF should_skip_year(l.year) = "skip"
       THEN [outcome |-> "year",
             evaluated |-> <<"duplicate", "country", "title", "year">>]
    ELSE IF NoVIN(l)
       THEN [outcome |-> "vin",
             evaluated |-> <<"duplicate", "country", "title", "year", "vin">>]
    ELSE [outcome |-> "accepted",
          evaluated |-> <<"duplicate", "country", "title", "year", "vin">>]

\* How extract_listing can fail: browser.navigate raises before the session
\* has left the category page, it raises with the detail page already in the
\* history, or a later step of the extraction raises.
Faults == {"none", "navigation", "navigation_committed", "extraction"}

\* driver.get(url): the detail page is added after the current history entry
Navigated(h, p) == [history |-> Append(SubSeq(h, 1, p), "detail"), hpos |-> p + 1]

\* driver.back(): one entry back, when there is one
BackFrom(p) == IF p > 1 THEN p - 1 ELSE p

AfterError_Abort(k) == num_urls + 1

\* except Exception: the for loop goes on with the next url
AfterError(k) == k + 1

\* One pass of the for loop over urls: extract, filter, go back.
ProcessUrl ==
    /\ spc = "scraping"
    /\ i <= num_urls
    /\ \E fault \in Faults, back_raises \in BOOLEAN :
       \E page \in IF fault = "none" THEN Pages ELSE {CHOOSE p \in Pages : TRUE} :
        LET listing == extract_listing(UrlOf(i), page)
            chain == IF fault = "none" THEN FilterChain(listing)
                     ELSE [outcome |-> "error", evaluated |-> <<>>]
            nav == IF fault = "navigation"
                      THEN [history |-> history, hpos |-> hpos]
                      ELSE Navigated(history, hpos)
            went_back == ~(chain.outcome = "error" /\ back_raises)
        IN
        /\ chain.outcome # "error" => ~back_raises
        /\ opened' = opened + 1
        /\ last_fault' = fault
        /\ last_listing' = IF fault = "none" THEN listing ELSE NoListing
        /\ last_outcome' = chain.outcome
        /\ last_evaluated' = chain.evaluated
        /\ last_backs' = 1
        /\ history' = nav.history
        /\ hpos' = IF went_back THEN BackFrom(nav.hpos) ELSE nav.hpos
        /\ CASE chain.outcome = "duplicate" ->
                    /\ spc' = "returned"
                    /\ UNCHANGED <<i, listings>>
             [] chain.outcome = "accepted" ->
                    /\ listings' = Append(listings,
                                          IF fields # <<>>
                                             THEN _filter_fields(listing, fields)
                                             ELSE listing)
                    /\ i' = i + 1
                    /\ UNCHANGED spc
             [] chain.outcome = "error" ->
                    /\ i' = AfterError(i)
                    /\ UNCHANGED <<spc, listings>>
             [] OTHER ->
                    /\ i' = i + 1
                    /\ UNCHANGED <<spc, listings>>
    /\ UNCHANGED <<num_urls, append_mode, existing_lot_numbers, min_year,
                   max_year, fields>>
    /\ UNCHANGED notScrape

\* the loop has run out of urls: return listings
ScrapeFinish ==
    /\ spc = "scraping"
    /\ i > num_urls
    /\ spc' = "returned"
    /\ UNCHANGED <<num_urls, append_mode, existing_lot_numbers, min_year,
                   max_year, fields, i, listings, history, hpos, opened,
                   last_listing, last_fault, last_outcome, last_evaluated,
                   last_backs>>
    /\ UNCHANGED notScrape

FieldSubsets == {<<>>, <<"url", "vin">>, <<"title", "year", "country">>}

\* the session is on the category page when _scrape_listings is called
InitScrape ==
    /\ num_urls \in 0..MaxUrls
    /\ append_mode \in BOOLEAN
    /\ existing_lot_numbers = IF append_mode THEN {Lot1234} ELSE {}
    /\ min_year \in {NoneInt, 2000}
    /\ max_year \in {NoneInt, 2001}
    /\ fields \in FieldSubsets
    /\ i = 1
    /\ listings = <<>>
    /\ spc = "scraping"
    /\ history = <<"start", "category">>
    /\ hpos = 2
    /\ opened = 0
    /\ last_listing = NoListing
    /\ last_fault = "none"
    /\ last_outcome = "none"
    /\ last_evaluated = <<>>
    /\ last_backs = 0

\* _scrape_listings is not running; the configuration may name fields
IdleScraping ==
    /\ num_urls = 0
    /\ append_mode = FALSE
    /\ existing_lot_numbers = {}
    /\ min_year = NoneInt
    /\ max_year = NoneInt
    /\ i = 1
    /\ listings = <<>>
    /\ spc = "idle"
    /\ history = <<"start">>
    /\ hpos = 1
    /\ opened = 0
    /\ last_listing = NoListing
    /\ last_fault = "none"
    /\ last_outcome = "none"
    /\ last_evaluated = <<>>
    /\ last_backs = 0

IdleScrape == IdleScraping /\ fields = <<>>

NextScrape ==
    \/ ProcessUrl
    \/ ScrapeFinish

----------------------------------------------------------------------------
(* ScrapingPipeline._deduplicate *)

DedupUrls == {UrlOf(1), UrlOf(2), UrlOf(3)}

\* the combined lists: the k-th listing is told apart by its place
CombinedLists ==
    UNION {{[k \in 1..n |-> [url |-> f[k], id |-> k]] : f \in [1..n -> DedupUrls]}
               : n \in 0..MaxCombined}

Unseen_Adjacent(listing) ==
    unique = <<>> \/ unique[Len(unique)].url # listing.url

\* if listing.url not in seen_urls
Unseen(listing) == listing.url \notin seen_urls

\* one pass of the for loop
DedupStep ==
    /\ dpc = "looping"
    /\ dpos <= Len(combined)
    /\ IF Unseen(combined[dpos])
          THEN /\ seen_urls' = seen_urls \cup {combined[dpos].url}
               /\ unique' = Append(unique, combined[dpos])
          ELSE UNCHANGED <<seen_urls, unique>>
    /\ dpos' = dpos + 1
    /\ UNCHANGED <<combined, dpc>>
    /\ UNCHANGED notDedup

\* return unique
DedupReturn ==
    /\ dpc = "looping"
    /\ dpos > Len(combined)
    /\ dpc' = "returned"
    /\ UNCHANGED <<combined, dpos, seen_urls, unique>>
    /\ UNCHANGED notDedup

InitDedup ==
    /\ combined \in CombinedLists
    /\ dpos = 1
    /\ seen_urls = {}
    /\ unique = <<>>
    /\ dpc = "looping"

IdleDedup ==
    /\ combined = <<>>
    /\ dpos = 1
    /\ seen_urls = {}
    /\ unique = <<>>
    /\ dpc = "idle"

NextDedup ==
    \/ DedupStep
    \/ DedupReturn

----------------------------------------------------------------------------
(* The scrape command: main, from the loop over cars_to_scrape on.         *)
(* browser.close() is taken to end the session whenever it is called.      *)

\* return 1
Fail(way) ==
    /\ mpc' = "returned"
    /\ exit_code' = 1
    /\ left_by' = way

\* an exception leaves main
Propagate(way) ==
    /\ mpc' = "raised"
    /\ left_by' = way
    /\ UNCHANGED exit_code

\* for idx, car_config in enumerate(cars_to_scrape, 1): the next car, or
\* return 0 after the last
NextCar ==
    /\ car' = car + 1
    /\ IF car + 1 <= num_cars
          THEN mpc' = "start_car" /\ UNCHANGED exit_code
          ELSE mpc' = "returned" /\ exit_code' = 0

\* AntiDetectionStrategy.apply_to_driver: the user-agent override, then the
\* script that hides the automation flag; either can raise
ApplyOutcomes == {"applied", "user_agent_raises", "flag_raises"}

\* browser = SeleniumBrowser(...): the driver is set up, then the overrides
\* of the anti-detection strategy are applied to it
OpenBrowser ==
    /\ mpc = "start_car"
    /\ \E setup_raises \in BOOLEAN, applying \in ApplyOutcomes :
        IF setup_raises
           THEN /\ session' = "none"
                /\ overrides' = "none"
                /\ Propagate("browser_failed")
           ELSE /\ session' = "open"
                /\ overrides' = applying
                /\ IF applying = "applied"
                      THEN /\ mpc' = "browser_open"
                           /\ left_by' = "none"
                           /\ UNCHANGED exit_code
                      ELSE Propagate("browser_failed")
    /\ UNCHANGED <<num_cars, car, saved>>
    /\ UNCHANGED notMain

\* site = SiteFactory.create(args.site), outside the try block
CreateSite ==
    /\ mpc = "browser_open"
    /\ \E raises \in BOOLEAN :
        IF raises
           THEN Propagate("site_failed")
           ELSE mpc' = "site_ready" /\ UNCHANGED <<left_by, exit_code>>
    /\ UNCHANGED <<num_cars, car, session, saved, overrides>>
    /\ UNCHANGED notMain

\* except Exception: try: browser.close() except: pass
CloseInHandler(s) == "closed"

\* the try block: pipeline.run, the summary, storage.save, browser.close
RunPipeline ==
    /\ mpc = "site_ready"
    /\ \E n \in 0..MaxRunListings, raises \in {"no", "run", "save"} :
        /\ raises = "save" => n > 0
        /\ IF raises = "no"
              THEN /\ saved' = IF n > 0 THEN Append(saved, n) ELSE saved
                   /\ session' = "closed"
                   /\ left_by' = "completed"
                   /\ NextCar
              ELSE /\ session' = CloseInHandler(session)
                   /\ Fail("run_failed")
                   /\ UNCHANGED <<saved, car>>
    /\ UNCHANGED <<num_cars, overrides>>
    /\ UNCHANGED notMain

InitMain ==
    /\ num_cars \in 1..MaxCars
    /\ car = 1
    /\ mpc = "start_car"
    /\ session = "none"
    /\ overrides = "none"
    /\ saved = <<>>
    /\ left_by = "none"
    /\ exit_code = NoneInt

IdleMain ==
    /\ num_cars = 0
    /\ car = 1
    /\ mpc = "idle"
    /\ session = "none"
    /\ overrides = "none"
    /\ saved = <<>>
    /\ left_by = "none"
    /\ exit_code = NoneInt

NextMain ==
    \/ OpenBrowser
    \/ CreateSite
    \/ RunPipeline

----------------------------------------------------------------------------
(* One call of a field extractor's extract *)

RuleTypes ==
    [vin |-> {"selector", "comment_search"},
     mileage |-> {"listing_detail", "title", "comment_search"},
     transmission |-> {"listing_detail"}]

SixSpeed == <<"6", "-", "S", "p", "e", "e", "d">>
Automatic == <<"A", "u", "t", "o", "m", "a", "t", "i", "c">>

\* what one rule can yield on an input
Candidates ==
    [vin |-> {None, <<>>, VIN_VALID, VIN_OTHER, VIN_SHORT, VIN_WITH_O,
              VIN_LOWER, VIN_LONG, VIN_NEWLINE},
     mileage |-> {NoneInt, 0, 12345, 45000},
     transmission |-> {None, SixSpeed, Automatic}]

RuleLists(field) ==
    UNION {[1..n -> [type : RuleTypes[field], candidate : Candidates[field]]]
               : n \in 0..MaxRules}

ExtractVIN ==
    /\ epc = "ready"
    /\ ex_field = "vin"
    /\ LET r == VINExtractor_extract(ex_rules, ex_driver) IN
          ex_value' = r.value /\ ex_consulted' = r.consulted
    /\ epc' = "done"
    /\ UNCHANGED <<ex_field, ex_rules, ex_driver>>
    /\ UNCHANGED notExtract

ExtractMileage ==
    /\ epc = "ready"
    /\ ex_field = "mileage"
    /\ LET r == MileageExtractor_extract(ex_rules, ex_driver) IN
          ex_value' = r.value /\ ex_consulted' = r.consulted
    /\ epc' = "done"
    /\ UNCHANGED <<ex_field, ex_rules, ex_driver>>
    /\ UNCHANGED notExtract

ExtractTransmission ==
    /\ epc = "ready"
    /\ ex_field = "transmission"
    /\ LET r == TransmissionExtractor_extract(ex_rules) IN
          ex_value' = r.value /\ ex_consulted' = r.consulted
    /\ epc' = "done"
    /\ UNCHANGED <<ex_field, ex_rules, ex_driver>>
    /\ UNCHANGED notExtract

InitExtract ==
    /\ ex_field \in {"vin", "mileage", "transmission"}
    /\ ex_rules \in RuleLists(ex_field)
    /\ ex_driver \in BOOLEAN
    /\ ex_value = IF ex_field = "mileage" THEN NoneInt ELSE None
    /\ ex_consulted = 0
    /\ epc = "ready"

IdleExtract ==
    /\ ex_field = "vin"
    /\ ex_rules = <<>>
    /\ ex_driver = FALSE
    /\ ex_value = None
    /\ ex_consulted = 0
    /\ epc = "idle"

NextExtract ==
    \/ ExtractVIN
    \/ ExtractMileage
    \/ ExtractTransmission

----------------------------------------------------------------------------
(* Helpers that read no state, each modelled as one call: fn names the     *)
(* helper, arg holds its arguments, ret what it returned or raised.        *)

IdleCall ==
    /\ fn = "none"
    /\ arg = <<>>
    /\ ret = <<>>
    /\ cpc = "idle"

Returned(v) == [raised |-> FALSE, value |-> v]
ValueError == [raised |-> TRUE, value |-> "ValueError"]

NotComma(ch) == ch # ","

\* value.replace(',', '')
RemoveCommas(s) == SelectSeq(s, NotComma)

\* the number written by a string of decimal digits, 0 for the empty string
RECURSIVE DigitsValue(_)
DigitsValue(s) ==
    IF s = <<>> THEN 0
    ELSE 10 * DigitsValue(SubSeq(s, 1, Len(s) - 1)) + DigitValue(s[Len(s)])

AllDigits(s) == \A k \in DOMAIN s : IsDigit(s[k])

\* int(s), for s over digits, separators and letters
ParseInt(s) ==
    IF s # <<>> /\ AllDigits(s) THEN Returned(DigitsValue(s)) ELSE ValueError

\* where the decimal point of s is, Len(s) + 1 when it has none
PointAt(s) ==
    IF \E k \in DOMAIN s : s[k] = "."
       THEN CHOOSE k \in DOMAIN s : s[k] = "." /\ \A j \in 1..(k - 1) : s[j] # "."
       ELSE Len(s) + 1

\* float(s) accepts s: digits with at most one point and at least one digit
IsFloatLiteral(s) ==
    /\ AllDigits(SubSeq(s, 1, PointAt(s) - 1))
    /\ AllDigits(SubSeq(s, PointAt(s) + 1, Len(s)))
    /\ Len(s) > (IF PointAt(s) <= Len(s) THEN 1 ELSE 0)

\* int(float(s) * 1000): the thousandths of s, the rest cut off
Thousandths(s) ==
    LET whole == SubSeq(s, 1, PointAt(s) - 1)
        frac == SubSeq(s, PointAt(s) + 1, Len(s)) \o <<"0", "0", "0">>
    IN 1000 * DigitsValue(whole) + DigitsValue(SubSeq(frac, 1, 3))

ParseFloatTimes1000(s) ==
    IF IsFloatLiteral(s) THEN Returned(Thousandths(s)) ELSE ValueError

\* 'k' in value.lower()
HasK(value) == Contains(Lower(value), <<"k">>)

\* BaseExtractor._apply_transform
_apply_transform(value, transform) ==
    CASE transform = "multiply_1000" -> ParseFloatTimes1000(value)
      [] transform = "handle_k_miles" ->
            IF HasK(value)
               THEN ParseFloatTimes1000(RemoveCommas(value))
               ELSE ParseInt(RemoveCommas(value))
      [] transform = "remove_commas" -> ParseInt(RemoveCommas(value))
      [] OTHER -> Returned(value)

Transforms == {"multiply_1000", "handle_k_miles", "remove_commas", "none"}

ValueChars == {"4", "5", ",", ".", "k"}

Value_12_345 == <<"1", "2", ",", "3", "4", "5">>
Value_45K == <<"4", "5", "K">>

\* what the capture group of a mileage pattern can hold
TransformInputs == Strings(ValueChars, MaxValueLen) \cup {Value_12_345, Value_45K}

CallApplyTransform ==
    /\ cpc = "ready"
    /\ fn = "_apply_transform"
    /\ ret' = _apply_transform(arg.value, arg.transform)
    /\ cpc' = "done"
    /\ UNCHANGED <<fn, arg>>
    /\ UNCHANGED notCall

InitTransform ==
    /\ fn = "_apply_transform"
    /\ arg \in [value : TransformInputs, transform : Transforms]
    /\ ret = <<>>
    /\ cpc = "ready"

NextTransform == CallApplyTransform

----------------------------------------------------------------------------
(* BringATrailerSite._extract_variant *)

UpperChar(ch) ==
    IF ch \in LowerChars
       THEN UpperCase[CHOOSE k \in DOMAIN LowerCase : LowerCase[k] = ch]
       ELSE ch

\* str.upper()
Upper(s) == [k \in DOMAIN s |-> UpperChar(s[k])]

IsSpace(ch) == ch \in {" ", "\t", "\n"}

\* s[n:]
From(s, n) == SubSeq(s, n + 1, Len(s))

\* str.find(sub): the offset of the first occurrence, -1 when there is none
Find(s, sub) ==
    LET at == {o \in 0..(Len(s) - Len(sub)) : SubSeq(s, o + 1, o + Len(sub)) = sub} IN
    IF at = {} THEN -1 ELSE CHOOSE o \in at : \A m \in at : o <= m

\* str.strip()
Strip(s) ==
    LET ink == {k \in DOMAIN s : ~IsSpace(s[k])} IN
    IF ink = {} THEN <<>>
    ELSE SubSeq(s, CHOOSE k \in ink : \A m \in ink : k <= m,
                   CHOOSE k \in ink : \A m \in ink : k >= m)

Speed == <<"-", "S", "P", "E", "E", "D">>

\* \d+-Speed under re.I matches s from offset o on
SpeedAt(s, o) ==
    \E n \in 1..(Len(s) - o - Len(Speed)) :
        /\ AllDigits(SubSeq(s, o + 1, o + n))
        /\ Upper(SubSeq(s, o + n + 1, o + n + Len(Speed))) = Speed

\* re.search(r'\d+-Speed', s, re.I): match.start(), -1 for no match
SpeedSearch(s) ==
    LET at == {o \in 0..(Len(s) - 1) : SpeedAt(s, o)} IN
    IF at = {} THEN -1 ELSE CHOOSE o \in at : \A m \in at : o <= m

\* s.split()[0], for s with a character that is no whitespace
FirstWord(s) ==
    LET t == Strip(s)
        gaps == {k \in DOMAIN t : IsSpace(t[k])}
    IN IF gaps = {} THEN t
       ELSE SubSeq(t, 1, (CHOOSE k \in gaps : \A m \in gaps : k <= m) - 1)

Standard == <<"S", "t", "a", "n", "d", "a", "r", "d">>

common_words ==
    {<<"f", "o", "r">>,
     <<"w", "i", "t", "h">>,
     <<"i", "n">>,
     <<"a", "t">>,
     <<"b", "y">>,
     <<"f", "r", "o", "m">>,
     <<"o", "n">>,
     <<"a", "n", "d">>,
     <<"t", "h", "e">>}

AfterMake_Whole(title, make_index, make) == Strip(title)

\* after_make = title[make_index + len(config.make):].strip()
AfterMake(title, make_index, make) == Strip(From(title, make_index + Len(make)))

\* the part of _extract_variant that follows the search for the model
VariantAfterModel(after_model) ==
    LET start == SpeedSearch(after_model)
        variant == IF start # -1 THEN Strip(SubSeq(after_model, 1, start))
                   ELSE Strip(after_model)
    IN IF after_model = <<>> THEN Standard
       ELSE IF variant = <<>> THEN Standard
       ELSE IF Lower(FirstWord(variant)) \in common_words THEN Standard
       ELSE variant

_extract_variant(title, config) ==
    LET make_index == Find(Upper(title), Upper(config.make))
        after_make == AfterMake(title, make_index, config.make)
        model_index == Find(Upper(after_make), Upper(config.model_short))
        after_model == Strip(From(after_make, model_index + Len(config.model_short)))
    IN IF make_index = -1 THEN Standard
       ELSE IF model_index = -1 THEN Standard
       ELSE VariantAfterModel(after_model)

W_BMW == <<"B", "M", "W">>
W_M3 == <<"M", "3">>
W_m3 == <<"m", "3">>
W_Sport == <<"S", "p", "o", "r", "t">>
W_6_speed == <<"6", "-", "s", "p", "e", "e", "d">>
W_For == <<"F", "o", "r">>

\* the words titles are made of; the empty word gives a doubled, leading
\* or trailing blank
TitleWords == {W_BMW, W_M3, W_m3, W_Sport, W_6_speed, W_For, <<>>}

RECURSIVE JoinWords(_)
JoinWords(ws) ==
    IF Len(ws) = 0 THEN <<>>
    ELSE IF Len(ws) = 1 THEN ws[1]
    ELSE ws[1] \o <<" ">> \o JoinWords(Tail(ws))

Title_Competition == <<"2", "0", "0", "3", " ", "B", "M", "W", " ", "M", "3", " ", "C", "o", "m", "p", "e", "t", "i", "t", "i", "o", "n", " ", "P", "a", "c", "k", "a", "g", "e">>
Title_Plain == <<"2", "0", "0", "3", " ", "B", "M", "W", " ", "M", "3">>
Title_Speed == <<"2", "0", "0", "3", " ", "B", "M", "W", " ", "M", "3", " ", "6", "-", "S", "p", "e", "e", "d">>
Competition_Package == <<"C", "o", "m", "p", "e", "t", "i", "t", "i", "o", "n", " ", "P", "a", "c", "k", "a", "g", "e">>

VariantTitles ==
    {JoinWords(ws) : ws \in Strings(TitleWords, MaxTitleWords)}
        \cup {Title_Competition, Title_Plain, Title_Speed}

\* config.make and config.model_short
BMW_M3 == [make |-> W_BMW, model_short |-> W_M3]
Bmw_m3 == [make |-> <<"B", "m", "w">>, model_short |-> W_m3]

\* the titles and configurations _extract_variant is called with
VariantCalls ==
    [title : VariantTitles, config : {BMW_M3}]
        \cup [title : {Title_Competition, Title_Plain, Title_Speed}, config : {Bmw_m3}]

CallExtractVariant ==
    /\ cpc = "ready"
    /\ fn = "_extract_variant"
    /\ ret' = _extract_variant(arg.title, arg.config)
    /\ cpc' = "done"
    /\ UNCHANGED <<fn, arg>>
    /\ UNCHANGED notCall

InitVariant ==
    /\ fn = "_extract_variant"
    /\ arg \in VariantCalls
    /\ ret = <<>>
    /\ cpc = "ready"

NextVariant == CallExtractVariant

----------------------------------------------------------------------------
(* BringATrailerSite._extract_year, called on titles *)

Y_2003 == <<"2", "0", "0", "3">>
Y_1999 == <<"1", "9", "9", "9">>
Y_20035 == <<"2", "0", "0", "3", "5">>
Y_E2003 == <<"E", "2", "0", "0", "3">>
Y_1899 == <<"1", "8", "9", "9">>
Y_2003_05 == <<"2", "0", "0", "3", "-", "0", "5">>
Y__1999 == <<"_", "1", "9", "9", "9">>
Y_E46 == <<"E", "4", "6">>

\* the words year titles are made of: years, longer and shorter numbers,
\* numbers joined to letters, to an underscore and to a hyphen
YearWords == {Y_2003, Y_1999, Y_20035, Y_E2003, Y_1899, Y_2003_05, Y__1999, Y_E46, <<>>}

YearTitles == {JoinWords(ws) : ws \in Strings(YearWords, MaxYearWords)}

CallExtractYear ==
    /\ cpc = "ready"
    /\ fn = "_extract_year"
    /\ ret' = _extract_year(arg)
    /\ cpc' = "done"
    /\ UNCHANGED <<fn, arg>>
    /\ UNCHANGED notCall

InitYear ==
    /\ fn = "_extract_year"
    /\ arg \in YearTitles
    /\ ret = <<>>
    /\ cpc = "ready"

NextYear == CallExtractYear

----------------------------------------------------------------------------
(* JSONStorage.__init__ and _load_existing_lot_numbers.  The set          *)
(* existing_lot_numbers is empty when the loading begins (line 12).        *)

\* the kinds of value a JSON array can hold; a record carries the value of
\* its 'lot_number' key, None when it has no such key
Items ==
    [kind : {"record"}, lot_number : {None, NA, Lot999, Lot1234}]
        \cup [kind : {"number", "null", "string", "list"}, lot_number : {None}]

\* what the file holds: nothing at all, something that cannot be opened,
\* text that is no JSON, a JSON number, or a JSON array
PriorFiles ==
    [kind : {"missing", "unreadable", "invalid_json", "number"}, items : {<<>>}]
        \cup [kind : {"array"}, items : Strings(Items, MaxItems)]

\* 'lot_number' in item raises TypeError for a number and for null; for a
\* string it is a substring test and for a list a membership test
MembershipRaises(item) == item.kind \in {"number", "null"}

\* 'lot_number' in item
HasLotNumber(item) == item.kind = "record" /\ item.lot_number # None

\* if not os.path.exists: return; open and json.load inside the try
OpenPrior ==
    /\ stpc = "opening"
    /\ stpc' = IF prior_file.kind = "array" THEN "loading" ELSE "constructed"
    /\ UNCHANGED <<prior_file, item_pos, existing_lot_numbers>>
    /\ UNCHANGED notStorage

\* one pass of the for loop; an exception ends the loading in the except
LoadItem ==
    /\ stpc = "loading"
    /\ item_pos <= Len(prior_file.items)
    /\ LET item == prior_file.items[item_pos] IN
        IF MembershipRaises(item)
           THEN /\ stpc' = "constructed"
                /\ UNCHANGED <<item_pos, existing_lot_numbers>>
           ELSE /\ existing_lot_numbers' =
                     IF HasLotNumber(item) /\ item.lot_number # NA
                        THEN existing_lot_numbers \cup {item.lot_number}
                        ELSE existing_lot_numbers
                /\ item_pos' = item_pos + 1
                /\ UNCHANGED stpc
    /\ UNCHANGED prior_file
    /\ UNCHANGED notStorage

\* the loop is over
LoadDone ==
    /\ stpc = "loading"
    /\ item_pos > Len(prior_file.items)
    /\ stpc' = "constructed"
    /\ UNCHANGED <<prior_file, item_pos, existing_lot_numbers>>
    /\ UNCHANGED notStorage

InitStorage ==
    /\ prior_file \in PriorFiles
    /\ item_pos = 1
    /\ stpc = "opening"

IdleStorage ==
    /\ prior_file = [kind |-> "missing", items |-> <<>>]
    /\ item_pos = 1
    /\ stpc = "idle"

NextStorage ==
    \/ OpenPrior
    \/ LoadItem
    \/ LoadDone

----------------------------------------------------------------------------
(* ScrapingPipeline.run: the loop over config.slugs and the combination.   *)
(* One step of the loop stands for navigate_to_category, the wait, the     *)
(* sort, get_listing_urls and _scrape_listings of one slug.                *)

\* the urls of the listings _scrape_listings can return for a slug
SlugResults == Strings({UrlOf(1), UrlOf(2)}, MaxSlugListings)

\* the url of the Listing _scrape_listings appends for an accepted detail
\* page: if config.fields: listing = self._filter_fields(listing, config.fields)
Stored(url) ==
    IF fields # <<>>
       THEN _filter_fields([NoListing EXCEPT !.url = url], fields).url
       ELSE url

\* all_listings.extend(listings): the listings are told apart by their place
Extended(all, found) ==
    all \o [k \in 1..Len(found) |->
                [url |-> Stored(found[k]), id |-> Len(all) + k]]

\* if self.append_storage and listings: break
BreaksAfter(found) == append_storage /\ found # <<>>

\* one pass of the for loop over the slugs; an exception of the navigation
\* leaves run
ProcessSlug ==
    /\ rpc = "looping"
    /\ slug <= num_slugs
    /\ \E raises \in BOOLEAN, found \in SlugResults :
        IF raises
           THEN /\ rpc' = "raised"
                /\ UNCHANGED <<slug, all_listings, visited, accepted>>
           ELSE /\ visited' = Append(visited, slug)
                /\ accepted' = accepted \o found
                /\ all_listings' = Extended(all_listings, found)
                /\ IF BreaksAfter(found)
                      THEN rpc' = "combining" /\ UNCHANGED slug
                      ELSE /\ slug' = slug + 1
                           /\ rpc' = IF slug + 1 <= num_slugs
                                        THEN "looping" ELSE "combining"
    /\ UNCHANGED <<num_slugs, append_storage>>
    /\ UNCHANGED notRun

\* unique_listings = self._deduplicate(all_listings): the call
RunCombine ==
    /\ rpc = "combining"
    /\ combined' = all_listings
    /\ dpos' = 1
    /\ seen_urls' = {}
    /\ unique' = <<>>
    /\ dpc' = "looping"
    /\ rpc' = "deduplicating"
    /\ UNCHANGED <<num_slugs, slug, append_storage, all_listings, visited, accepted>>
    /\ UNCHANGED notRunNorDedup

\* return unique_listings
RunReturn ==
    /\ rpc = "deduplicating"
    /\ dpc = "returned"
    /\ rpc' = "returned"
    /\ UNCHANGED <<num_slugs, slug, append_storage, all_listings, visited, accepted>>
    /\ UNCHANGED notRun

InitRun ==
    /\ num_slugs \in 1..MaxSlugs
    /\ slug = 1
    /\ append_storage \in BOOLEAN
    /\ all_listings = <<>>
    /\ visited = <<>>
    /\ accepted = <<>>
    /\ fields \in FieldSubsets
    /\ rpc = "looping"

IdleRun ==
    /\ num_slugs = 0
    /\ slug = 1
    /\ append_storage = FALSE
    /\ all_listings = <<>>
    /\ visited = <<>>
    /\ accepted = <<>>
    /\ rpc = "idle"

NextRun ==
    \/ ProcessSlug
    \/ RunCombine
    \/ DedupStep
    \/ DedupReturn
    \/ RunReturn

----------------------------------------------------------------------------
(* BringATrailerSite._extract_high_bidder: one pass of its while loop per  *)
(* step.  A bid notification is its link text and the text of the comment  *)
(* around it, None when the lookup of the comment raises.                  *)

max_bid_clicks == 10

\* the length of the longest run of whitespace of s that starts at place p
SpaceRun(s, p) ==
    CHOOSE n \in 0..(Len(s) - p + 1) :
        /\ \A j \in p..(p + n - 1) : IsSpace(s[j])
        /\ (p + n > Len(s) \/ ~IsSpace(s[p + n]))

IsAmountChar(ch) == IsDigit(ch) \/ ch = ","

\* the same for [0-9,]
AmountRun(s, p) ==
    CHOOSE n \in 0..(Len(s) - p + 1) :
        /\ \A j \in p..(p + n - 1) : IsAmountChar(s[j])
        /\ (p + n > Len(s) \/ ~IsAmountChar(s[p + n]))

\* where the dollar sign has to be for USD\s+\$([0-9,]+) to match at offset o
DollarAt(s, o) == o + 4 + SpaceRun(s, o + 4)

\* USD\s+\$([0-9,]+), ignoring case, matches s at offset o
BidMatchAt(s, o) ==
    /\ o + 3 <= Len(s)
    /\ SubSeq(Lower(s), o + 1, o + 3) = <<"u", "s", "d">>
    /\ SpaceRun(s, o + 4) >= 1
    /\ DollarAt(s, o) <= Len(s)
    /\ s[DollarAt(s, o)] = "$"
    /\ AmountRun(s, DollarAt(s, o) + 1) >= 1

\* re.search(r'USD\s+\$([0-9,]+)', comment_text, re.I): group 1 of the
\* leftmost match, None without one
BidSearch(s) ==
    IF \E o \in 0..Len(s) : BidMatchAt(s, o)
       THEN LET o == CHOOSE a \in 0..Len(s) :
                        BidMatchAt(s, a) /\ \A b \in 0..(a - 1) : ~BidMatchAt(s, b)
                d == DollarAt(s, o)
            IN SubSeq(s, d + 1, d + AmountRun(s, d + 1))
       ELSE None

\* the body of the try for one notification: the amount its comment states,
\* NoneInt when the lookup raises, nothing matches or int() raises
ParseBid(link) ==
    IF link.comment = None \/ BidSearch(link.comment) = None
       THEN NoneInt
       ELSE LET n == ParseInt(RemoveCommas(BidSearch(link.comment)))
            IN IF n.raised THEN NoneInt ELSE n.value

Bidder_al == <<"a", "l">>
Bidder_bo == <<" ", "b", "o", " ">>
Bidder_cy == <<"c", "y">>
Comment_5000 == <<"U", "S", "D", " ", "$", "5", ",", "0", "0", "0", " ", "b", "i", "d">>
Comment_5000_lower == <<"u", "s", "d", " ", " ", "$", "5", "0", "0", "0">>
Comment_4000 == <<"U", "S", "D", " ", "$", "4", ",", "0", "0", "0">>
Comment_commas == <<"U", "S", "D", " ", "$", ",">>
Comment_sold == <<"S", "o", "l", "d", " ", "f", "o", "r", " ", "$", "5", ",", "0", "0", "0">>

Links ==
    { [text |-> Bidder_al, comment |-> Comment_5000],
      [text |-> Bidder_bo, comment |-> Comment_5000_lower],
      [text |-> Bidder_cy, comment |-> Comment_4000],
      [text |-> Bidder_cy, comment |-> Comment_commas],
      [text |-> Bidder_bo, comment |-> Comment_sold],
      [text |-> Bidder_al, comment |-> None] }

\* the amounts of the notifications, worked out once
BidAmounts == [link \in Links |-> ParseBid(link)]

BidAmount(link) == BidAmounts[link]

Accepts(link, price) == BidAmount(link) # NoneInt /\ BidAmount(link) = price

\* for bid_link in reversed(bid_links): the first one accepted
LastAccepted(links, price) ==
    CHOOSE k \in DOMAIN links :
        Accepts(links[k], price) /\ \A j \in (k + 1)..Len(links) : ~Accepts(links[j], price)

LastLink_First(links) == links[1]

\* bid_links[-1]
LastLink(links) == links[Len(links)]

\* what one scan of the page returns, None to go on to the load button
Scan(links, price) ==
    IF links # <<>> /\ TruthyInt(price)
       THEN IF \E k \in DOMAIN links : Accepts(links[k], price)
               THEN Strip(links[LastAccepted(links, price)].text)
               ELSE None
       ELSE IF links # <<>> /\ ~TruthyInt(price)
               THEN Strip(LastLink(links).text)
               ELSE None

LinkLists == Strings(Links, MaxLinks)

Prices == {NoneInt, 5000}

\* how find_element('#comments-load-button') and is_displayed() come out
Controls == {"missing", "hidden", "displayed"}

Exhausted_Late(n) == n >= max_bid_clicks + 2

\* the while condition fails
Exhausted(n) == n >= max_bid_clicks

\* a pass whose scan returns a bidder
BidderFound ==
    /\ bpc = "loop"
    /\ ~Exhausted(bid_clicks)
    /\ Scan(notifications, sale_price) # None
    /\ high_bidder' = Scan(notifications, sale_price)
    /\ bid_exit' = "found"
    /\ bpc' = "returned"
    /\ UNCHANGED <<sale_price, notifications, bid_clicks>>
    /\ UNCHANGED notBidder

\* a pass that finds no bidder and no load button to click: break
BidderNoControl ==
    /\ bpc = "loop"
    /\ ~Exhausted(bid_clicks)
    /\ Scan(notifications, sale_price) = None
    /\ \E control \in Controls \ {"displayed"} :
        /\ high_bidder' = None
        /\ bid_exit' = "no_control"
        /\ bpc' = "returned"
    /\ UNCHANGED <<sale_price, notifications, bid_clicks>>
    /\ UNCHANGED notBidder

\* a pass that finds no bidder and clicks the load button: the click can
\* raise; otherwise the page may show more notifications below, and the
\* loop is left when the budget is used up
BidderClick ==
    /\ bpc = "loop"
    /\ ~Exhausted(bid_clicks)
    /\ Scan(notifications, sale_price) = None
    /\ \E raises \in BOOLEAN, more \in LinkLists :
        IF raises
           THEN /\ bpc' = "raised"
                /\ UNCHANGED <<notifications, bid_clicks, high_bidder, bid_exit>>
           ELSE /\ Len(notifications) + Len(more) <= MaxLinks
                /\ notifications' = notifications \o more
                /\ bid_clicks' = bid_clicks + 1
                /\ IF Exhausted(bid_clicks + 1)
                      THEN /\ high_bidder' = None
                           /\ bid_exit' = "exhausted"
                           /\ bpc' = "returned"
                      ELSE UNCHANGED <<high_bidder, bid_exit, bpc>>
    /\ UNCHANGED sale_price
    /\ UNCHANGED notBidder

InitBidder ==
    /\ sale_price \in Prices
    /\ notifications \in LinkLists
    /\ bid_clicks = 0
    /\ high_bidder = None
    /\ bid_exit = "none"
    /\ bpc = "loop"

IdleBidder ==
    /\ sale_price = NoneInt
    /\ notifications = <<>>
    /\ bid_clicks = 0
    /\ high_bidder = None
    /\ bid_exit = "none"
    /\ bpc = "idle"

NextBidder ==
    \/ BidderFound
    \/ BidderNoControl
    \/ BidderClick

----------------------------------------------------------------------------
(* DelayStrategy: the session's action counter and get_delay.  Times are   *)
(* whole milliseconds; each random draw is a choice among sample values of *)
(* its range, the end points included.                                     *)

\* random.uniform(1.5, 3.0)
BaseDelays == {1500, 2000, 3000}
\* random.randint(10, 15)
Periods == 10..15
\* random.uniform(8, 15)
LongPauses == {8000, 15000}
\* random.uniform(0.5, 1.0)
QuickDelays == {500, 1000}
\* the min_delay a DelayStrategy is constructed with; 1.0 is the default
MinDelays == {0, 1000, 20000}

\* base_delay * (1 + action_count * 0.005)
Fatigued(base_delay, n) == (base_delay * (1000 + 5 * n)) \div 1000

\* max(delay, self.min_delay)
Floor(delay, floor) == IF delay >= floor THEN delay ELSE floor

\* self.action_count % random.randint(10, 15) == 0
LongPauseDue(n, period) == n % period = 0

\* DelayStrategy.get_delay
get_delay ==
    /\ action_count < MaxActions
    /\ action_count' = action_count + 1
    /\ \E base_delay \in BaseDelays, period \in Periods, pause \in LongPauses,
          quick \in BOOLEAN, short \in QuickDelays :
        IF LongPauseDue(action_count + 1, period)
           THEN /\ last_delay' = pause
                /\ delay_branch' = "long"
                /\ since_pause' = 0
                /\ last_gap' = since_pause + 1
           ELSE /\ last_delay' =
                      IF quick THEN Floor(short, min_delay)
                      ELSE Floor(Fatigued(base_delay, action_count + 1), min_delay)
                /\ delay_branch' = IF quick THEN "quick" ELSE "fatigued"
                /\ since_pause' = since_pause + 1
                /\ UNCHANGED last_gap
    /\ UNCHANGED min_delay
    /\ UNCHANGED notDelay

\* DelayStrategy.__init__
InitDelay ==
    /\ min_delay \in MinDelays
    /\ action_count = 0
    /\ last_delay = 0
    /\ delay_branch = "none"
    /\ since_pause = 0
    /\ last_gap = 0

IdleDelay ==
    /\ min_delay = 1000
    /\ action_count = 0
    /\ last_delay = 0
    /\ delay_branch = "none"
    /\ since_pause = 0
    /\ last_gap = 0

NextDelay == get_delay

----------------------------------------------------------------------------
(* The price and the sale date of a Listing: PriceExtractor.extract, and   *)
(* what extract_listing and the pipeline's call of it put in the Listing.  *)
(* The argument is the text of the page's .item-results block, None when   *)
(* the page has no such block.                                             *)

\* the length of the longest run of digits of s that starts at place p
DigitRun(s, p) ==
    CHOOSE n \in 0..(Len(s) - p + 1) :
        /\ \A j \in p..(p + n - 1) : IsDigit(s[j])
        /\ (p + n > Len(s) \/ ~IsDigit(s[p + n]))

\* where group 1 of \$\s?([\d,]+) starts when the match starts at offset o
PriceGroupAt(s, o) ==
    IF o + 2 <= Len(s) /\ IsSpace(s[o + 2]) THEN o + 3 ELSE o + 2

\* \$\s?([\d,]+) matches s at offset o
PriceMatchAt(s, o) ==
    /\ o + 1 <= Len(s)
    /\ s[o + 1] = "$"
    /\ AmountRun(s, PriceGroupAt(s, o)) >= 1

\* int(price_match.group(1).replace(',', '')) if price_match else None
ParsePrice(s) ==
    IF \E o \in 0..Len(s) : PriceMatchAt(s, o)
       THEN LET o == CHOOSE a \in 0..Len(s) :
                        PriceMatchAt(s, a) /\ \A b \in 0..(a - 1) : ~PriceMatchAt(s, b)
                g == PriceGroupAt(s, o)
            IN ParseInt(RemoveCommas(SubSeq(s, g, g + AmountRun(s, g) - 1)))
       ELSE Returned(NoneInt)

\* the places of the parts of on\s+(\d{1,2}/\d{1,2}/\d{2,4}) for a match
\* that starts at offset o
MonthAt(s, o) == o + 3 + SpaceRun(s, o + 3)
DayAt(s, o) == MonthAt(s, o) + DigitRun(s, MonthAt(s, o)) + 1
YearPartAt(s, o) == DayAt(s, o) + DigitRun(s, DayAt(s, o)) + 1

DateMatchAt(s, o) ==
    /\ o + 2 <= Len(s)
    /\ SubSeq(s, o + 1, o + 2) = <<"o", "n">>
    /\ SpaceRun(s, o + 3) >= 1
    /\ DigitRun(s, MonthAt(s, o)) \in {1, 2}
    /\ DayAt(s, o) - 1 <= Len(s) /\ s[DayAt(s, o) - 1] = "/"
    /\ DigitRun(s, DayAt(s, o)) \in {1, 2}
    /\ YearPartAt(s, o) - 1 <= Len(s) /\ s[YearPartAt(s, o) - 1] = "/"
    /\ DigitRun(s, YearPartAt(s, o)) >= 2

DaysIn(month, year) ==
    IF month = 2 THEN (IF year % 4 = 0 THEN 29 ELSE 28)
    ELSE IF month \in {4, 6, 9, 11} THEN 30 ELSE 31

\* two digits of a number
TwoDigits(n) == <<Digits[((n \div 10) % 10) + 1], Digits[(n % 10) + 1]>>

\* strftime('%Y-%m-%d')
IsoDate(year, month, day) ==
    TwoDigits(year \div 100) \o TwoDigits(year % 100) \o <<"-">>
        \o TwoDigits(month) \o <<"-">> \o TwoDigits(day)

\* datetime.strptime(group, '%m/%d/%y').strftime('%Y-%m-%d') inside the try:
\* None when strptime raises.  %y reads exactly two digits, 00 to 68 as
\* 2000 to 2068 and 69 to 99 as 1969 to 1999.
ParseSaleDate(s) ==
    IF \E o \in 0..Len(s) : DateMatchAt(s, o)
       THEN LET o == CHOOSE a \in 0..Len(s) :
                        DateMatchAt(s, a) /\ \A b \in 0..(a - 1) : ~DateMatchAt(s, b)
                month == DigitsValue(SubSeq(s, MonthAt(s, o), DayAt(s, o) - 2))
                day == DigitsValue(SubSeq(s, DayAt(s, o), YearPartAt(s, o) - 2))
                yy == DigitsValue(SubSeq(s, YearPartAt(s, o), YearPartAt(s, o) + 1))
                year == IF yy <= 68 THEN 2000 + yy ELSE 1900 + yy
            IN IF /\ DigitRun(s, YearPartAt(s, o)) = 2
                  /\ month \in 1..12
                  /\ day \in 1..DaysIn(month, year)
                  THEN IsoDate(year, month, day)
                  ELSE None
       ELSE None

\* PriceExtractor.extract
PriceExtractor_extract(block) ==
    IF block = None
       THEN Returned([price |-> NoneInt, sale_date |-> None])
       ELSE IF ParsePrice(Strip(block)).raised
               THEN ValueError
               ELSE Returned([price |-> ParsePrice(Strip(block)).value,
                              sale_date |-> ParseSaleDate(Strip(block))])

Sold == <<"S", "o", "l", "d">>
Reserve_Not_Met == <<"R", "e", "s", "e", "r", "v", "e", " ", "N", "o", "t", " ", "M", "e", "t">>

\* the sale_price the pipeline hands to extract_listing
PipelineSalePrice == NoneInt

\* the result, price and sale_date extract_listing gives the Listing
ListingSale(price) ==
    [result |-> IF TruthyInt(price) THEN Sold ELSE Reserve_Not_Met,
     price |-> price,
     sale_date |-> None]

Block_Sold == <<"S", "o", "l", "d", " ", "f", "o", "r", " ", "$", "5", ",", "0", "0", "0", " ", "o", "n", " ", "1", "1", "/", "4", "/", "2", "6">>
Block_SoldLongYear == <<"S", "o", "l", "d", " ", "f", "o", "r", " ", "$", "5", ",", "0", "0", "0", " ", "o", "n", " ", "1", "1", "/", "4", "/", "2", "0", "2", "6">>
Block_Bid == <<"B", "i", "d", " ", "t", "o", " ", "$", "4", ",", "5", "0", "0", " ", "o", "n", " ", "2", "/", "2", "9", "/", "2", "4">>
Block_Withdrawn == <<"W", "i", "t", "h", "d", "r", "a", "w", "n", " ", "o", "n", " ", "1", "/", "3", "1", "/", "6", "9">>
Block_FebThirty == <<"S", "o", "l", "d", " ", "f", "o", "r", " ", "U", "S", "D", " ", "$", " ", "5", "0", "0", " ", "o", "n", " ", "2", "/", "3", "0", "/", "2", "6">>

\* the characters short blocks are written with
BlockChars == {"$", "5", ",", " ", "0"}

ResultBlocks ==
    Strings(BlockChars, MaxBlockLen)
        \cup {None, Block_Sold, Block_SoldLongYear, Block_Bid, Block_Withdrawn,
              Block_FebThirty}

\* listing = self.site.extract_listing(self.browser, url, config,
\* sale_price=None), seen from the page's results block
CallExtractListingSale ==
    /\ cpc = "ready"
    /\ fn = "extract_listing"
    /\ ret' = Returned(ListingSale(PipelineSalePrice))
    /\ cpc' = "done"
    /\ UNCHANGED <<fn, arg>>
    /\ UNCHANGED notCall

InitSale ==
    /\ fn = "extract_listing"
    /\ arg \in ResultBlocks
    /\ ret = <<>>
    /\ cpc = "ready"

NextSale == CallExtractListingSale

----------------------------------------------------------------------------
(* Listing.to_dict followed by Listing.from_dict, on the attributes of the *)
(* Listing that are modelled                                               *)

\* the Listings handed to to_dict: each attribute known, absent, or empty
Listings ==
    [url : {UrlOf(1)},
     title : {Title_2003, <<>>},
     lot_number : {Lot999, None, <<>>},
     vin : {VIN_VALID, None},
     year : {2003, 0, NoneInt},
     country : {USA, Canada, None}]

\* d = listing.to_dict(); Listing.from_dict(d)
CallToDict ==
    /\ cpc = "ready"
    /\ fn = "to_dict"
    /\ ret' = Returned([record |-> to_dict(arg),
                        restored |-> from_dict(to_dict(arg), DOMAIN to_dict(arg))])
    /\ cpc' = "done"
    /\ UNCHANGED <<fn, arg>>
    /\ UNCHANGED notCall

InitRecord ==
    /\ fn = "to_dict"
    /\ arg \in Listings
    /\ ret = <<>>
    /\ cpc = "ready"

NextRecord == CallToDict

----------------------------------------------------------------------------
(* Specifications: one per component, the others standing still *)

IdleCore ==
    IdleLoader /\ IdleScrape /\ IdleDedup /\ IdleMain /\ IdleExtract /\ IdleCall
        /\ IdleStorage /\ IdleRun

IdleMore == IdleBidder /\ IdleDelay

LoaderInit == InitLoader /\ IdleScrape /\ IdleDedup /\ IdleMain /\ IdleExtract /\ IdleCall /\ IdleStorage /\ IdleRun /\ IdleMore
SpecLoader == LoaderInit /\ [][NextLoader]_vars

ScrapeInit == InitScrape /\ IdleLoader /\ IdleDedup /\ IdleMain /\ IdleExtract /\ IdleCall /\ IdleStorage /\ IdleRun /\ IdleMore
SpecScrape == ScrapeInit /\ [][NextScrape]_vars

DedupInit == InitDedup /\ IdleLoader /\ IdleScrape /\ IdleMain /\ IdleExtract /\ IdleCall /\ IdleStorage /\ IdleRun /\ IdleMore
SpecDedup == DedupInit /\ [][NextDedup]_vars

MainInit == InitMain /\ IdleLoader /\ IdleScrape /\ IdleDedup /\ IdleExtract /\ IdleCall /\ IdleStorage /\ IdleRun /\ IdleMore
SpecMain == MainInit /\ [][NextMain]_vars

ExtractInit == InitExtract /\ IdleLoader /\ IdleScrape /\ IdleDedup /\ IdleMain
               /\ IdleCall /\ IdleStorage /\ IdleRun /\ IdleMore
SpecExtract == ExtractInit /\ [][NextExtract]_vars

RestIdle ==
    IdleLoader /\ IdleScrape /\ IdleDedup /\ IdleMain /\ IdleExtract /\ IdleStorage /\ IdleRun /\ IdleMore

TransformInit == InitTransform /\ RestIdle
SpecTransform == TransformInit /\ [][NextTransform]_vars

VariantInit == InitVariant /\ RestIdle
SpecVariant == VariantInit /\ [][NextVariant]_vars

YearInit == InitYear /\ RestIdle
SpecYear == YearInit /\ [][NextYear]_vars

StorageInit ==
    InitStorage /\ IdleLoader /\ IdleScrape /\ IdleDedup /\ IdleMain /\ IdleExtract
        /\ IdleCall /\ IdleRun /\ IdleMore
SpecStorage == StorageInit /\ [][NextStorage]_vars

CollectInit ==
    InitCollect /\ IdleScrape /\ IdleDedup /\ IdleMain /\ IdleExtract /\ IdleCall
        /\ IdleStorage /\ IdleRun /\ IdleMore
SpecCollect == CollectInit /\ [][NextCollect]_vars

RunInit ==
    InitRun /\ IdleLoader /\ IdleScraping /\ IdleDedup /\ IdleMain /\ IdleExtract
        /\ IdleCall /\ IdleStorage /\ IdleMore
SpecRun == RunInit /\ [][NextRun]_vars

BidderInit == InitBidder /\ IdleCore /\ IdleDelay
SpecBidder == BidderInit /\ [][NextBidder]_vars
\* the interpreter runs the loop on: a step that can be taken is taken
SpecBidderFair == SpecBidder /\ WF_vars(NextBidder)

DelayInit == InitDelay /\ IdleCore /\ IdleBidder
SpecDelay == DelayInit /\ [][NextDelay]_vars

SaleInit == InitSale /\ RestIdle
SpecSale == SaleInit /\ [][NextSale]_vars

RecordInit == InitRecord /\ RestIdle
SpecRecord == RecordInit /\ [][NextRecord]_vars

----------------------------------------------------------------------------
\* C1: the loader stops as soon as 2 consecutive failures have occurred and
\* as soon as the click counter reaches max_clicks, whichever comes first:
\* the loop head is never reached, and no reveal action is executed, once
\* either condition holds.
C1_LoaderHalts ==
    /\ [](lpc = "Loading" =>
            consecutive_failures < 2 /\ clicks < max_clicks)
    /\ [][reveals' # reveals =>
            consecutive_failures < 2 /\ clicks < max_clicks]_vars

\* the loader has stopped on two consecutive failures with budget left
C1_Witness ==
    /\ lpc = "Exit"
    /\ consecutive_failures = 2
    /\ clicks > 0
    /\ clicks < max_clicks
    /\ reveals > 2

\* C2: every loop iteration either leaves the loop, increments the click
\* counter, or increments the consecutive-failure counter.
C2_IterationProgress ==
    (lpc = "Loading" /\ reveals > 0) =>
        clicks > head_clicks \/ consecutive_failures > head_failures

----------------------------------------------------------------------------
(* Claims about _scrape_listings.  The filters are restated here from the  *)
(* claims' wording, over the listing that was extracted last.              *)

Last(s) == s[Len(s)]

IsPrefix(s, t) == Len(s) <= Len(t) /\ SubSeq(t, 1, Len(s)) = s

FilterOrder == <<"duplicate", "country", "title", "year", "vin">>

KnownLot(l) == append_mode /\ l.lot_number \in existing_lot_numbers

YearOutside(l) ==
    /\ l.year # NoneInt
    /\ \/ min_year # NoneInt /\ l.year < min_year
       \/ max_year # NoneInt /\ l.year > max_year

YearUnreadable(l) ==
    l.year = NoneInt /\ (min_year # NoneInt \/ max_year # NoneInt)

Fails(filter, l) ==
    CASE filter = "duplicate" -> KnownLot(l)
      [] filter = "country" -> l.country \notin {None, <<>>, USA}
      [] filter = "title" -> Contains(Lower(l.title), modified)
      [] filter = "year" -> YearOutside(l) \/ YearUnreadable(l)
      [] filter = "vin" -> l.vin = None \/ ~_validate_vin(l.vin)

Passes(l) ==
    /\ ~Fails("country", l)
    /\ ~Fails("title", l)
    /\ ~YearOutside(l)
    /\ ~Fails("vin", l)

\* C6: every listing is accepted only if, at that moment, its country is
\* not a non-USA value, its title does not contain "modified", its year is
\* not outside the configured bounds and its VIN is present and valid; the
\* returned list holds no listing failing one of these.
C6_AcceptedPassFilters ==
    /\ [](fields = <<>> => \A k \in DOMAIN listings : Passes(listings[k]))
    /\ [][Len(listings') > Len(listings) =>
            (last_fault' = "none" /\ Passes(last_listing'))]_vars

\* two 1999 listings were accepted under an upper bound of 2001, and a
\* 2003 listing has just been rejected by the year filter
C6_Witness ==
    /\ Len(listings) = 2
    /\ fields = <<>>
    /\ max_year # NoneInt
    /\ listings[1].year = 1999
    /\ last_outcome = "year"
    /\ last_listing.year = 2003

\* C7: an exception while one url is extracted or filtered leaves the
\* result as it was and the loop goes on with the next url; no url is
\* left out.
C7_FailureSkipsOne ==
    /\ [][(opened' = opened + 1 /\ last_outcome' = "error")
            => (listings' = listings /\ spc' = "scraping" /\ i' = i + 1)]_vars
    /\ [](spc = "scraping" => opened = i - 1)
    /\ []((spc = "returned" /\ last_outcome # "duplicate") => opened = num_urls)

\* the second of three urls failed on navigation; the first listing is
\* kept and the third url is next
C7_Witness ==
    /\ spc = "scraping"
    /\ last_outcome = "error"
    /\ last_fault = "navigation"
    /\ opened = 2
    /\ Len(listings) = 1
    /\ i = 3
    /\ num_urls = 3

\* C8: after each url is processed (accepted, rejected, stopped as a
\* duplicate or failed) the session is back on the category page, with
\* exactly one back navigation issued for that url.
C8_BackOnCategory ==
    opened > 0 => (history[hpos] = "category" /\ last_backs = 1)

----------------------------------------------------------------------------
(* Claims about _deduplicate, the scrape command and the field extractors *)

\* positions of the combined list holding the first occurrence of their url
FirstOccurrences ==
    {k \in DOMAIN combined :
        \A j \in 1..(k - 1) : combined[j].url # combined[k].url}

\* the m-th first occurrence, in list order
NthFirst(m) ==
    CHOOSE k \in FirstOccurrences :
        Cardinality({j \in FirstOccurrences : j <= k}) = m

\* C4: _deduplicate returns one entry per distinct url of the combined
\* list, each the first occurrence of its url, in order of first
\* occurrence.
C4_DedupFirstOccurrences ==
    dpc = "returned" =>
        /\ Len(unique) = Cardinality({combined[k].url : k \in DOMAIN combined})
        /\ \A m \in DOMAIN unique : unique[m] = combined[NthFirst(m)]

\* a list of three whose third entry repeats the url of the first, with
\* another url between them
C4_Witness ==
    /\ dpc = "returned"
    /\ Len(combined) = 3
    /\ combined[1].url = combined[3].url
    /\ combined[1].url # combined[2].url
    /\ Len(unique) = 2

\* C9: however the processing of a car is left once its browser session
\* is open (completion, an exception in the try block, a failure of
\* SiteFactory.create), the session is not left open.
C9_SessionClosed ==
    left_by \in {"completed", "run_failed", "site_failed"} => session # "open"

\* a rule of the list that yields a candidate on the input
Matches(rule) ==
    CASE ex_field = "vin" ->
            /\ rule.candidate # None
            /\ rule.type = "comment_search" => ex_driver
      [] ex_field = "mileage" ->
            /\ rule.candidate # NoneInt
            /\ rule.type = "comment_search" => ex_driver
      [] ex_field = "transmission" -> rule.candidate # None

\* C10: with two rules that both match the input, extract returns the
\* value of the first and does not consult the second.
C10_FirstMatchWins ==
    (epc = "done" /\ Len(ex_rules) = 2 /\ Matches(ex_rules[1])
        /\ Matches(ex_rules[2]))
        => (ex_value = ex_rules[1].candidate /\ ex_consulted = 1)

----------------------------------------------------------------------------
(* Claims about VIN validation and the mileage transform *)

\* exactly 17 characters drawn from A-H, J-N, P, R-Z, 0-9
WellFormedVIN(vin) ==
    /\ vin # None
    /\ Len(vin) = 17
    /\ \A k \in 1..17 : vin[k] \in VinChars

\* C11: whichever rule produced it, a VIN returned by VINExtractor.extract
\* is a string of exactly 17 characters of the VIN alphabet; when no rule
\* yields such a string the result is absent.
C11_OnlyWellFormedVIN ==
    (epc = "done" /\ ex_field = "vin") =>
        (ex_value = None \/ WellFormedVIN(ex_value))

\* the value ends in k or K
HasK_Suffix(value) == value # <<>> /\ Lower(value)[Len(value)] = "k"

\* the digits of a mileage as written: groups of digits parted by commas,
\* at most one decimal point
WrittenNumber(s) == IsFloatLiteral(RemoveCommas(s))

WithoutSuffix(value) == SubSeq(value, 1, Len(value) - 1)

\* the call returned the integer n
Yields(n) == ~ret.raised /\ ret.value = n

\* C12: handle_k_miles always yields an integer: a written number with a
\* "k" suffix gives the number without separators times 1000, and a whole
\* number without "k" gives the number without separators.
C12_HandleKMiles ==
    (cpc = "done" /\ fn = "_apply_transform" /\ arg.transform = "handle_k_miles") =>
        /\ (HasK_Suffix(arg.value) /\ WrittenNumber(WithoutSuffix(arg.value)))
              => Yields(Thousandths(RemoveCommas(WithoutSuffix(arg.value))))
        /\ (~HasK(arg.value) /\ RemoveCommas(arg.value) # <<>>
                /\ AllDigits(RemoveCommas(arg.value)))
              => Yields(DigitsValue(RemoveCommas(arg.value)))

\* the prior output cannot be read or is not an array of records
Malformed(file) ==
    \/ file.kind \in {"unreadable", "invalid_json", "number"}
    \/ file.kind = "array" /\ \E k \in DOMAIN file.items : file.items[k].kind # "record"

\* C15: constructing the storage adapter on an unreadable or malformed
\* prior output does not fail and leaves no lot number known: exists()
\* answers false for every lot number.
C15_MalformedPriorKnowsNothing ==
    (stpc = "constructed" /\ Malformed(prior_file)) =>
        /\ existing_lot_numbers = {}
        /\ \A lot \in {Lot999, Lot1234, Lot555} : ~exists(lot)

----------------------------------------------------------------------------
(* Claims about _extract_variant and _extract_year *)

\* the places of title, from 1, where sub stands, letter case aside
Occurrences(title, sub) ==
    {p \in 1..(Len(title) - Len(sub) + 1) :
        Upper(SubSeq(title, p, p + Len(sub) - 1)) = Upper(sub)}

Least(S) == CHOOSE p \in S : \A q \in S : p <= q

\* what follows the first model name that follows the first make, when
\* there is one
ModelsAfterMake(title, config) ==
    {q \in Occurrences(title, config.model_short) :
        q >= Least(Occurrences(title, config.make)) + Len(config.make)}

NamesFound(title, config) ==
    /\ Occurrences(title, config.make) # {}
    /\ ModelsAfterMake(title, config) # {}

\* a "<N>-Speed" token begins at place p of s
SpeedTokenAt(s, p) ==
    /\ IsDigit(s[p])
    /\ \E e \in p..Len(s) :
          /\ \A k \in p..e : IsDigit(s[k])
          /\ e + 6 <= Len(s)
          /\ Lower(SubSeq(s, e + 1, e + 6)) = <<"-", "s", "p", "e", "e", "d">>

\* the text after the model name, up to the first "<N>-Speed" token
Remainder(title, config) ==
    LET rest == From(title, Least(ModelsAfterMake(title, config))
                                + Len(config.model_short) - 1)
        tokens == {p \in DOMAIN rest : SpeedTokenAt(rest, p)}
    IN Strip(IF tokens = {} THEN rest ELSE SubSeq(rest, 1, Least(tokens) - 1))

\* C13: _extract_variant returns "Standard" when the make or the model
\* name is not found, when nothing remains after the model name once a
\* "<N>-Speed" token and what follows it is cut off, or when the first
\* remaining word is a common word; otherwise the trimmed remainder.
C13_Variant ==
    (cpc = "done" /\ fn = "_extract_variant") =>
        LET title == arg.title
            config == arg.config
        IN /\ ~NamesFound(title, config) => ret = Standard
           /\ NamesFound(title, config) =>
                LET rem == Remainder(title, config) IN
                IF rem = <<>> \/ Lower(FirstWord(rem)) \in common_words
                   THEN ret = Standard
                   ELSE ret = rem
           /\ title = Title_Competition => ret = Competition_Package
           /\ title \in {Title_Plain, Title_Speed} => ret = Standard

\* "BMW M3 Sport 6-speed" gave "Sport"
C13_Witness ==
    /\ cpc = "done"
    /\ fn = "_extract_variant"
    /\ arg.title = JoinWords(<<W_BMW, W_M3, W_Sport, W_6_speed>>)
    /\ ret = W_Sport

\* the standalone tokens of title: the places where a longest run of
\* letters, digits and underscores begins, with the place where it ends
Tokens(title) ==
    {t \in (DOMAIN title) \X (DOMAIN title) :
        /\ t[1] <= t[2]
        /\ \A k \in t[1]..t[2] : IsWordChar(title[k])
        /\ t[1] = 1 \/ ~IsWordChar(title[t[1] - 1])
        /\ t[2] = Len(title) \/ ~IsWordChar(title[t[2] + 1])}

\* the tokens of four digits that begin with 19 or 20
YearTokens(title) ==
    {t \in Tokens(title) :
        /\ t[2] = t[1] + 3
        /\ AllDigits(SubSeq(title, t[1], t[2]))
        /\ SubSeq(title, t[1], t[1] + 1) \in {<<"1", "9">>, <<"2", "0">>}}

\* C14: _extract_year returns the first standalone 4-digit token that
\* begins with 19 or 20, as an integer, and absent when the title has none.
C14_Year ==
    (cpc = "done" /\ fn = "_extract_year") =>
        IF YearTokens(arg) = {}
           THEN ret = NoneInt
           ELSE \E t \in YearTokens(arg) :
                  /\ \A u \in YearTokens(arg) : t[1] <= u[1]
                  /\ ret = DigitsValue(SubSeq(arg, t[1], t[2]))

\* "20035 1999 2003" gave 1999
C14_Witness ==
    /\ cpc = "done"
    /\ fn = "_extract_year"
    /\ arg = JoinWords(<<Y_20035, Y_1999, Y_2003>>)
    /\ ret = 1999

\* C17: run navigates to every configured slug, in configuration order,
\* before it returns the combined listings.
C17_EverySlug ==
    rpc = "returned" => visited = [k \in 1..num_slugs |-> k]

----------------------------------------------------------------------------
(* Claims about loader stalls, growth, exhaustion and polling *)

\* the places of the page's cards that carry an address
Addressed == {k \in DOMAIN page_cards : page_cards[k] \notin {None, <<>>}}

NthAddressed(m) ==
    CHOOSE k \in Addressed : Cardinality({j \in Addressed : j <= k}) = m

\* the address of a card, made absolute
Address(href) == IF StartsWithHttp(href) THEN href ELSE base_url \o href

\* C16: a stall is not fatal: after two consecutive failures the loader
\* returns, and get_listing_urls gives the address of every card on the
\* page that has one, in page order, cut at max_listings.
C16_StallNotFatal ==
    /\ [][(lpc = "Exit" /\ exit_reason = "failed") => lpc' = "Returned"]_vars
    /\ []((lpc = "Collected" /\ exit_reason = "failed") =>
            /\ Len(urls) = (IF max_listings < Cardinality(Addressed)
                               THEN max_listings ELSE Cardinality(Addressed))
            /\ \A m \in DOMAIN urls : urls[m] = Address(page_cards[NthAddressed(m)]))

\* the loader stalled on 15 polls without growth; the page showed a
\* relative and an absolute card, both returned
C16_Witness ==
    /\ lpc = "Collected"
    /\ exit_reason = "failed"
    /\ last_event = "stalled"
    /\ page_cards = <<Href_Relative, Href_Absolute>>
    /\ urls = <<base_url \o Href_Relative, Href_Absolute>>

FailureEvents == {"scroll_failed", "exception", "error", "stalled"}

\* C18: observed growth sets the consecutive-failure counter to 0 and
\* does not stop the loader; every failure, of whatever kind, adds one to
\* the same counter, which stops the loader exactly when it reaches 2;
\* nothing but growth lowers the counter.
C18_GrowthResets ==
    /\ [][(lpc = "AwaitingGrowth" /\ last_event' = "growth")
            => (consecutive_failures' = 0 /\ exit_reason' # "failed")]_vars
    /\ [][(lpc \in {"Loading", "AwaitingGrowth"} /\ last_event' \in FailureEvents)
            => /\ consecutive_failures' = consecutive_failures + 1
               /\ (consecutive_failures' >= FailureLimit)
                     <=> (lpc' = "Exit" /\ exit_reason' = "failed")]_vars
    /\ [][consecutive_failures' < consecutive_failures
            => (lpc = "AwaitingGrowth" /\ last_event' = "growth")]_vars
    /\ [](exit_reason = "failed" => consecutive_failures = FailureLimit)

\* a reveal error, then a click with growth, then a second reveal error:
\* the loader is still loading, with one failure counted
C18_Witness ==
    /\ lpc = "Loading"
    /\ reveals = 3
    /\ clicks = 1
    /\ idle = 0
    /\ last_event = "error"
    /\ head_failures = 0
    /\ consecutive_failures = 1

\* C19: a reveal result that carries the done marker ends the loader at
\* once, with the click counter and the failure counter as they were.
C19_DoneIsTerminal ==
    [][(lpc = "Loading" /\ reveals' = reveals + 1 /\ carried_done')
         => /\ lpc' = "Exit"
            /\ exit_reason' = "exhausted"
            /\ clicks' = clicks
            /\ consecutive_failures' = consecutive_failures]_vars

\* C20: a successful reveal adds exactly one to the click counter and
\* starts the polling; there are at most 15 polls; a poll that sees more
\* cards than the baseline of the iteration ends the polling, and only the
\* 15th poll without growth counts as a failure.
C20_Polling ==
    /\ [][(lpc = "Loading" /\ reveals' = reveals + 1 /\ last_event' = "success")
            => /\ clicks' = clicks + 1
               /\ consecutive_failures' = consecutive_failures
               /\ wait_attempt' = 0
               /\ lpc' = "AwaitingGrowth"]_vars
    /\ [](lpc = "AwaitingGrowth" => wait_attempt < PollBudget)
    /\ [](wait_attempt <= PollBudget)
    /\ [][lpc = "AwaitingGrowth" =>
            /\ listings_before' = listings_before
            /\ clicks' = clicks
            /\ IF listings_after' > listings_before
                  THEN lpc' # "AwaitingGrowth" /\ last_event' = "growth"
                  ELSE /\ wait_attempt' = wait_attempt + 1
                       /\ IF wait_attempt' = PollBudget
                             THEN /\ consecutive_failures' = consecutive_failures + 1
                                  /\ lpc' # "AwaitingGrowth"
                             ELSE /\ consecutive_failures' = consecutive_failures
                                  /\ lpc' = "AwaitingGrowth"]_vars

\* the 15th poll of the first click saw no growth: one failure counted
C20_Witness ==
    /\ last_event = "stalled"
    /\ wait_attempt = PollBudget
    /\ clicks = 1
    /\ consecutive_failures = 1

----------------------------------------------------------------------------
(* Claims about high-bidder resolution *)

BidderDone == bpc \in {"returned", "raised"}

\* C21: high-bidder resolution ends, after at most 10 clicks of the load
\* button; when it ends for want of a displayed button, or with the 10
\* clicks used up, it returns None.
C21_BidderTerminates ==
    /\ [](bid_clicks <= 10)
    /\ [](bpc = "returned" =>
            /\ bid_exit \in {"found", "no_control", "exhausted"}
            /\ bid_exit \in {"no_control", "exhausted"} => high_bidder = None
            /\ bid_exit = "exhausted" => bid_clicks = 10)
    /\ <>BidderDone

\* the budget of 10 clicks was used up
C21_Witness ==
    /\ bpc = "returned"
    /\ bid_exit = "exhausted"
    /\ bid_clicks = 10
    /\ high_bidder = None

\* the comment states the price as a currency amount
States(comment, price) ==
    /\ comment # None
    /\ \E o \in 0..Len(comment) :
        /\ BidMatchAt(comment, o)
        /\ LET d == DollarAt(comment, o)
               numeral == RemoveCommas(SubSeq(comment, d + 1, d + AmountRun(comment, d + 1)))
           IN numeral # <<>> /\ DigitsValue(numeral) = price

\* the places of the notifications that name the high bidder
Naming(links, price) ==
    IF price = NoneInt
       THEN DOMAIN links
       ELSE {k \in DOMAIN links : States(links[k].comment, price)}

\* C22: the notifications are scanned again after every click of the load
\* button, the 10th included: None is returned only when the page shows no
\* notification that names the high bidder.
C22_RescanAfterEveryClick ==
    (bpc = "returned" /\ high_bidder = None) =>
        Naming(notifications, sale_price) = {}

\* the text of the last notification that names the high bidder
Expected(links, price) ==
    Strip(links[CHOOSE k \in Naming(links, price) :
                    \A j \in Naming(links, price) : j <= k].text)

\* C23: with notifications on the page, no price known gives the last
\* notification and a known price the last one whose comment states the
\* price, and the load button is not clicked while such a notification is
\* on the page.
C23_Selection ==
    /\ []((bpc = "returned" /\ bid_exit = "found") =>
            /\ Naming(notifications, sale_price) # {}
            /\ high_bidder = Expected(notifications, sale_price))
    /\ [][bid_clicks' # bid_clicks =>
            Naming(notifications, sale_price) = {}]_vars

\* a price is known, two notifications state it, and the later one is taken
C23_Witness ==
    /\ bpc = "returned"
    /\ sale_price = 5000
    /\ Len(notifications) = 2
    /\ Naming(notifications, sale_price) = {1, 2}
    /\ high_bidder = <<"b", "o">>
    /\ bid_clicks = 0

----------------------------------------------------------------------------
(* Claims about the delays *)

\* C24: whatever branch get_delay takes, what it returns is at least
\* min_delay.
C24_FlooredAtMinDelay ==
    delay_branch # "none" => last_delay >= min_delay

\* C25: a long pause comes at least 10 and at most 15 get_delay calls after
\* the start of the session or the long pause before it.
C25_LongPauseEvery10To15 ==
    /\ since_pause <= 15
    /\ delay_branch = "long" => (last_gap >= 10 /\ last_gap <= 15)

----------------------------------------------------------------------------
(* Claims about the construction of the browser session *)

OverridesFailed == overrides \in {"user_agent_raises", "flag_raises"}

\* C26: when applying the anti-fingerprint overrides raises, the browser
\* session is still constructed and no exception reaches the caller.
C26_OverridesBestEffort ==
    OverridesFailed => (session = "open" /\ mpc # "raised")

----------------------------------------------------------------------------
(* Claims about the Listing's price and sale date, the field subset, the   *)
(* year filter and the record form                                         *)

\* what the results block of the page holds, when it can be parsed
InBlock == PriceExtractor_extract(arg).value

\* C27: the Listing of a detail page has the price and the sale date of
\* the page's results block: the number after the $ as price, with result
\* 'Sold', and the date after 'on' in ISO form as sale_date.
C27_PriceAndDateFromBlock ==
    (cpc = "done" /\ fn = "extract_listing" /\ ~PriceExtractor_extract(arg).raised) =>
        /\ ret.value.price = InBlock.price
        /\ ret.value.sale_date = InBlock.sale_date
        /\ InBlock.price # NoneInt => ret.value.result = Sold

\* the places of accepted whose url is met there for the first time
FirstPlaces(us) == {k \in DOMAIN us : \A j \in 1..(k - 1) : us[j] # us[k]}

\* C28: with a field subset configured, run returns listings for the same
\* detail urls, in the same order, as without one: one for each distinct
\* url accepted, the first of each.
C28_SubsetKeepsListings ==
    rpc = "returned" =>
        /\ Len(unique) = Cardinality(FirstPlaces(accepted))
        /\ \A k \in DOMAIN unique : unique[k].id \in FirstPlaces(accepted)
        /\ \A j, k \in DOMAIN unique : j < k => unique[j].id < unique[k].id

\* the year is known and lies below min_year or above max_year
OutsideBounds(year) ==
    /\ year # NoneInt
    /\ \/ (min_year # NoneInt /\ year < min_year)
       \/ (max_year # NoneInt /\ year > max_year)

\* C29: for the year of every listing the year filter is asked about, an
\* absent year included, should_skip_year answers without raising, and
\* says skip exactly when the year lies outside the bounds that are set.
C29_YearFilterTotal ==
    (opened > 0 /\ last_fault = "none" /\ "year" \in Range(last_evaluated)) =>
        /\ should_skip_year(last_listing.year) # "raise"
        /\ last_outcome # "error"
        /\ last_outcome = "year" <=> OutsideBounds(last_listing.year)

\* the attributes of the Listing that are modelled, and its strings
Attributes == {"url", "title", "lot_number", "vin", "year", "country"}
StringAttributes == {"title", "lot_number", "vin", "country"}

Known(l, a) == IF a = "year" THEN l[a] # NoneInt ELSE Truthy(l[a])

\* C30: the record to_dict emits holds every attribute of the Listing,
\* country included, with "N/A" for an unknown string and null for an
\* unknown number, and from_dict of the record restores every attribute
\* that was known.
C30_RecordRoundTrip ==
    (cpc = "done" /\ fn = "to_dict") =>
        /\ DOMAIN ret.value.record = Attributes
        /\ \A a \in StringAttributes :
              ~Known(arg, a) => ret.value.record[a] = NA
        /\ ret.value.record.year = arg.year
        /\ \A a \in Attributes :
              Known(arg, a) => ret.value.restored[a] = arg[a]

====
